---- MODULE Spec2Model ----
(***************************************************************************)
(* TcpSock5Handler.Tunnel: the client side of the SOCKS5 negotiation       *)
(* (greeting, method selection, optional username/password authentication, *)
(* CONNECT request and reply) of deepin-network-proxy, as a state machine  *)
(* with one step per blocking call on the upstream connection.             *)
(*                                                                         *)
(* Bytes are naturals 0..255, byte strings are sequences of bytes, and     *)
(* sequences are 1-indexed: Go's buf[0] is buf[1] here.                    *)
(***************************************************************************)
EXTENDS Integers, Sequences, FiniteSets, TLC

VARIABLES
  h,         \* one session: the handler and the locals of its Tunnel call
  upstream,  \* whether the upstream proxy still sends: "live" or "silent"
  hs,        \* several sessions running Tunnel concurrently
  dial,      \* the descriptors of the process and its last MegaDial call
  call,      \* one call of a function of the UDP path, and its result
  table,     \* one TableRule, the kernel table it manages, its last call
  cg         \* one CGroupManager, its directories, its last call

vars == <<h, upstream, hs, dial, call, table, cg>>

(***************************************************************************)
(* Bounds and program constants                                            *)
(***************************************************************************)

\* Largest number of bytes one Read on the upstream connection returns.
MaxRead == 2

\* net.IPv4len and net.IPv6len as used by Tunnel.
IPv4len == 4
IPv6len == 16

\* Longest domain name the CONNECT request can carry.
MaxDomainLen == 255

\* The port Tunnel substitutes for an unspecified one.
DefaultPort == 80

\* Size of the buffer the auth reply is read into.
AuthReplyBufLen == 32

(***************************************************************************)
(* Byte strings                                                            *)
(***************************************************************************)

Fill(n, b) == [i \in 1..n |-> b]

SeqsUpTo(S, n) == UNION {[1..k -> S] : k \in 1..n}

Min(a, b) == IF a < b THEN a ELSE b

\* byte(len(s)): the conversion keeps the low 8 bits.
ByteOf(n) == n % 256

\* uint16(p): the conversion keeps the low 16 bits.
Uint16Of(p) == p % 65536

\* What Read(buf) leaves in buf after delivering data: data over buf's head.
Overlay(buf, data) ==
  [i \in 1..Len(buf) |-> IF i <= Len(data) THEN data[i] ELSE buf[i]]

\* binary.BigEndian.PutUint16
PutUint16(p) == << p \div 256, p % 256 >>

\* binary.BigEndian.Uint16
GetUint16(b) == b[1] * 256 + b[2]

\* The 12-byte prefix of an IPv4 address held in 16-byte form.
V4InV6Prefix == Fill(10, 0) \o <<255, 255>>

\* net.IP.To4: the 4-byte form, or <<>> (nil) when there is none.
To4(ip) ==
  IF Len(ip) = IPv4len THEN ip
  ELSE IF Len(ip) = IPv6len /\ SubSeq(ip, 1, 12) = V4InV6Prefix
       THEN SubSeq(ip, 13, 16)
       ELSE <<>>

\* net.IP.To16: the 16-byte form, or <<>> (nil) when there is none.
To16(ip) ==
  IF Len(ip) = IPv4len THEN V4InV6Prefix \o ip
  ELSE IF Len(ip) = IPv6len THEN ip
       ELSE <<>>

\* net.IPv4(a, b, c, d): always the 16-byte form.
IPv4(a, b, c, d) == V4InV6Prefix \o <<a, b, c, d>>

(***************************************************************************)
(* Inputs: proxy configurations, targets, what the upstream sends          *)
(***************************************************************************)

UserNames == {<<>>, <<117>>}
Passwords == {<<>>, <<112>>}
Proxies == [UserName : UserNames, Password : Passwords]

\* A proxy configuration whose user name is longer than a length byte
\* counts (256 bytes).
LongUserProxy == [UserName |-> Fill(256, 117), Password |-> <<112>>]

Ports == {0, 80, 443}

IPs ==
  { <<1, 2, 3, 4>>,
    IPv4(1, 2, 3, 4),
    <<32, 1, 13, 184>> \o Fill(11, 0) \o <<1>>,
    <<1, 2, 3>>,
    <<>> }

DomainLens == {0, 1, MaxDomainLen, MaxDomainLen + 1}

\* 1.2.3.4 with every port; the other addresses with port 443.
TcpTargets ==
  {[type |-> "tcp", IP |-> <<1, 2, 3, 4>>, Port |-> p, Domain |-> <<>>] :
     p \in Ports}
  \cup
  {[type |-> "tcp", IP |-> ip, Port |-> 443, Domain |-> <<>>] : ip \in IPs}
\* Names of every length with port 443; the one-byte name with port 0 too.
DomainTargets ==
  {[type |-> "domain", IP |-> <<>>, Port |-> 443, Domain |-> Fill(n, 97)] :
     n \in DomainLens}
  \cup
  {[type |-> "domain", IP |-> <<>>, Port |-> 0, Domain |-> <<97>>]}
OtherTargets == {[type |-> "udp", IP |-> <<1, 2, 3, 4>>, Port |-> 53,
                  Domain |-> <<>>]}
Targets == TcpTargets \cup DomainTargets \cup OtherTargets

\* The target of the session configured with LongUserProxy.
LongUserTargets ==
  {[type |-> "tcp", IP |-> <<1, 2, 3, 4>>, Port |-> 443, Domain |-> <<>>]}

MethodReplyBytes == {0, 2, 5, 255}
AuthReplyBytes == {0, 1, 5}
ConnectHeaders == {<<v, r, 0>> : v \in {4, 5}, r \in {0, 1}}
AtypBytes == {0, 1, 3, 4}
LenBytes == {0, 30}
AddrFills == {0, 9}
PortReplies == {<<0, 0>>}

(***************************************************************************)
(* The handler and the locals of one Tunnel call                           *)
(***************************************************************************)

Ev(op, what, data, ok) == [op |-> op, what |-> what, data |-> data, ok |-> ok]

\* The handler after NewTcpSock5Handler, before Tunnel is called.
NewTcpSock5Handler(proxy, rAddr) ==
  [ pc |-> "start",
    proxy |-> proxy,
    rAddr |-> rAddr,
    rConn |-> "nil",
    conn |-> "none",
    ip |-> <<>>,
    port |-> 0,
    dominname |-> <<>>,
    buf |-> <<>>,
    addrLen |-> 0,
    err |-> "",
    trace |-> <<>> ]

\* return err: the call ends with an error, the handler is left as it is.
Fail(s, e) == [s EXCEPT !.pc = "Failed", !.err = e]

Log(s, e) == [s EXCEPT !.trace = Append(@, e)]

\* The values of the variables a specification does not use.
NoSessions == <<>>
NoDial == [calls |-> 0, open |-> {}, last |-> [fn |-> "none"]]
NoCall == [fn |-> "none"]
NoTable == [fn |-> "none"]
NoManager == [CGroups |-> <<>>, dirs |-> {}, calls |-> 0,
              last |-> [fn |-> "none"]]

Init ==
  /\ h \in {NewTcpSock5Handler(p, a) : p \in Proxies, a \in Targets}
          \cup {NewTcpSock5Handler(LongUserProxy, a) : a \in LongUserTargets}
  /\ upstream = "live"
  /\ hs = NoSessions
  /\ dial = NoDial
  /\ call = NoCall
  /\ table = NoTable
  /\ cg = NoManager

(***************************************************************************)
(* The messages Tunnel builds and the checks it makes on the replies       *)
(***************************************************************************)

\* Mutant: username/password is offered when either field is configured.
GreetingEither(proxy) ==
  IF proxy.UserName # <<>> \/ proxy.Password # <<>>
  THEN <<5, 2, 0, 2>>
  ELSE <<5, 1, 0>>

\* The greeting: no-auth, and username/password when both are configured.
Greeting(proxy) ==
  IF proxy.UserName # <<>> /\ proxy.Password # <<>>
  THEN <<5, 2, 0, 2>>
  ELSE <<5, 1, 0>>

\* Mutant: the version byte of the method reply is not checked.
MethodAcceptedNoVersion(buf) == buf[2] = 0 \/ buf[2] = 2

\* The method reply is accepted: version 5 and method 0 or 2.
MethodAccepted(buf) == buf[1] = 5 /\ (buf[2] = 0 \/ buf[2] = 2)

\* Mutant: the authentication stage is skipped.
NeedsAuthNever(buf) == FALSE

\* The server asks for username/password authentication.
NeedsAuth(buf) == buf[2] = 2

\* The auth request: 01 <ulen> <uname> <plen> <passwd>.
AuthRequest(proxy) ==
  <<1>> \o <<ByteOf(Len(proxy.UserName))>> \o proxy.UserName
        \o <<ByteOf(Len(proxy.Password))>> \o proxy.Password

\* Mutant: the auth reply is accepted when its first byte is 0 or 1.
AuthAccepted01(buf) == ~(buf[1] # 0 /\ buf[1] # 1)

\* Mutant: the auth reply is accepted only when its first byte is 5.
AuthAcceptedOnly5(buf) == buf[1] = 5

\* The auth reply is accepted: its first byte is 1 or 5.
AuthAccepted(buf) == ~(buf[1] # 5 /\ buf[1] # 1)

\* The address part of the CONNECT request: [err, bytes] with the
\* address-type byte first.
ConnectAddress(ip, dominname) ==
  IF dominname = <<>>
  THEN IF Len(ip) = IPv4len /\ To4(ip) # <<>>
       THEN [err |-> "", bytes |-> <<1>> \o To4(ip)]
       ELSE IF To16(ip) # <<>>
            THEN [err |-> "", bytes |-> <<4>> \o To16(ip)]
            ELSE [err |-> "ip invalid", bytes |-> <<>>]
  ELSE IF Len(dominname) > MaxDomainLen
       THEN [err |-> "domain name out of max length", bytes |-> <<>>]
       ELSE [err |-> "",
             bytes |-> <<3>> \o <<ByteOf(Len(dominname))>> \o dominname]

\* Mutant: the default port is not substituted.
ConnectPortNoDefault(port) == port

\* The port of the CONNECT request: 80 when the local port is 0.
ConnectPort(port) == IF port = 0 THEN DefaultPort ELSE port

\* The CONNECT request: 05 01 00 <atyp> <addr> <port-hi> <port-lo>.
ConnectRequest(ip, dominname, port) ==
  LET a == ConnectAddress(ip, dominname) IN
  IF a.err # "" THEN [err |-> a.err, buf |-> <<5, 1, 0, 0>>]
  ELSE [err |-> "",
        buf |-> <<5, 1, 0>> \o a.bytes \o PutUint16(ConnectPort(port))]

\* Mutant: only the version of the CONNECT reply header is checked.
ConnectHeaderVersionOnly(buf) == buf[1] = 5

\* The CONNECT reply header is accepted: version 5 and reply code 0.
ConnectHeaderAccepted(buf) == ~(buf[1] # 5 \/ buf[2] # 0)

\* Mutant: a type-4 address is taken to be as long as a type-1 address.
AddrLenOfShortV6(atyp) ==
  CASE atyp = 1 -> IPv4len
    [] atyp = 4 -> IPv4len
    [] atyp = 3 -> -2
    [] OTHER -> -1

\* Address length by address type; -1 for an unknown type, -2 when the
\* length is in the next byte (type 3).
AddrLenOf(atyp) ==
  CASE atyp = 1 -> IPv4len
    [] atyp = 4 -> IPv6len
    [] atyp = 3 -> -2
    [] OTHER -> -1

\* The switch on handler.rAddr's type: the locals ip, port and dominname.
TargetOf(rAddr) ==
  CASE rAddr.type = "tcp" ->
         [err |-> "", ip |-> rAddr.IP, port |-> 0, dominname |-> <<>>]
    [] rAddr.type = "domain" ->
         [err |-> "", ip |-> IPv4(0, 0, 0, 1), port |-> Uint16Of(rAddr.Port),
          dominname |-> rAddr.Domain]
    [] OTHER ->
         [err |-> "type is not tcp", ip |-> <<>>, port |-> 0,
          dominname |-> <<>>]

(***************************************************************************)
(* Tunnel, one step per blocking call.  Each step operator gives the set   *)
(* of states the call can leave a session s in; the step includes the code *)
(* that runs between that call and the next one.                           *)
(***************************************************************************)

\* After the method (or auth) stage: build the CONNECT request.
StartConnect(s) ==
  LET r == ConnectRequest(s.ip, s.dominname, s.port) IN
  IF r.err # ""
  THEN Fail([s EXCEPT !.buf = r.buf], r.err)
  ELSE [s EXCEPT !.pc = "connWrite", !.buf = r.buf,
                 !.port = ConnectPort(s.port)]

\* handlerPrv.dialProxy: it fails, or it returns a new open connection to
\* the upstream proxy to its caller and keeps no reference to it.
dialProxy == {[ok |-> FALSE, conn |-> "none"], [ok |-> TRUE, conn |-> "open"]}

\* rConn, err := handler.dialProxy(), the type switch on rAddr and the
\* greeting buffer.
DialProxySteps(s) ==
  { LET d == Log([s EXCEPT !.conn = r.conn], Ev("dial", "proxy", <<>>, r.ok))
        a == TargetOf(s.rAddr)
    IN  IF ~r.ok
        THEN Fail(d, "dial")
        ELSE IF a.err # ""
             THEN Fail(d, a.err)
             ELSE [d EXCEPT !.pc = "greetWrite", !.ip = a.ip,
                            !.port = a.port, !.dominname = a.dominname,
                            !.buf = Greeting(s.proxy)]
    : r \in dialProxy }

\* Mutant: the error of the greeting write is not returned.
WriteGreetingIgnoreErr(s) ==
  { [Log(s, Ev("write", "greeting", s.buf, ok)) EXCEPT !.pc = "methodRead"]
    : ok \in BOOLEAN }

\* rConn.Write(buf) of the greeting.
WriteGreetingSteps(s) ==
  { Fail(Log(s, Ev("write", "greeting", s.buf, FALSE)), "write") }
  \cup
  { [Log(s, Ev("write", "greeting", s.buf, TRUE)) EXCEPT !.pc = "methodRead"] }

\* rConn.Read(buf) of the method reply into the greeting buffer, the check
\* of version and method, and the auth request buffer when method 2.
ReadMethodSteps(s) ==
  { Fail(Log(s, Ev("read", "methodReply", <<>>, FALSE)), "read") }
  \cup
  { LET b == Overlay(s.buf, data)
        r == Log([s EXCEPT !.buf = b], Ev("read", "methodReply", data, TRUE))
    IN  IF ~MethodAccepted(b)
        THEN Fail(r, "sock5 proto is invalid")
        ELSE IF NeedsAuth(b)
             THEN [r EXCEPT !.pc = "authWrite",
                            !.buf = AuthRequest(s.proxy)]
             ELSE StartConnect(r)
    : data \in SeqsUpTo(MethodReplyBytes, Min(MaxRead, Len(s.buf))) }

\* rConn.Write(buf) of the auth request, then the fresh 32-byte buffer.
WriteAuthSteps(s) ==
  { Fail(Log(s, Ev("write", "authRequest", s.buf, FALSE)), "write") }
  \cup
  { [Log(s, Ev("write", "authRequest", s.buf, TRUE))
       EXCEPT !.pc = "authRead", !.buf = Fill(AuthReplyBufLen, 0)] }

\* rConn.Read(buf) of the auth reply and the check of its first byte.
ReadAuthSteps(s) ==
  { Fail(Log(s, Ev("read", "authReply", <<>>, FALSE)), "read") }
  \cup
  { LET b == Overlay(s.buf, data)
        r == Log([s EXCEPT !.buf = b], Ev("read", "authReply", data, TRUE))
    IN  IF ~AuthAccepted(b)
        THEN Fail(r, "incorrect sock5 auth response")
        ELSE StartConnect(r)
    : data \in SeqsUpTo(AuthReplyBytes, Min(MaxRead, Len(s.buf))) }

\* rConn.Write(buf) of the CONNECT request.
WriteConnectSteps(s) ==
  { Fail(Log(s, Ev("write", "connectRequest", s.buf, FALSE)), "write") }
  \cup
  { [Log(s, Ev("write", "connectRequest", s.buf, TRUE)) EXCEPT !.pc = "hdrRead"] }

\* io.ReadFull(rConn, buf[0:3]): VER REP RSV, and the check of the header.
ReadHeaderSteps(s) ==
  { Fail(Log(s, Ev("read", "header", <<>>, FALSE)), "read") }
  \cup
  { LET b == Overlay(s.buf, data)
        r == Log([s EXCEPT !.buf = b], Ev("read", "header", data, TRUE))
    IN  IF ~ConnectHeaderAccepted(b)
        THEN Fail(r, "incorrect sock5 connect reponse")
        ELSE [r EXCEPT !.pc = "atypRead"]
    : data \in ConnectHeaders }

\* if len(buf) < addrLen { buf = make([]byte, addrLen) }
Grow(buf, addrLen) == IF Len(buf) < addrLen THEN Fill(addrLen, 0) ELSE buf

\* io.ReadFull(rConn, buf[0:1]): ATYP, and the switch on it.
ReadAtypSteps(s) ==
  { Fail(Log(s, Ev("read", "atyp", <<>>, FALSE)), "read") }
  \cup
  { LET b == Overlay(s.buf, <<t>>)
        r == Log([s EXCEPT !.buf = b], Ev("read", "atyp", <<t>>, TRUE))
        n == AddrLenOf(b[1])
    IN  CASE n = -1 -> Fail(r, "invalid ip")
          [] n = -2 -> [r EXCEPT !.pc = "lenRead"]
          [] OTHER -> [r EXCEPT !.pc = "addrRead", !.addrLen = n,
                                !.buf = Grow(b, n)]
    : t \in AtypBytes }

\* io.ReadFull(rConn, buf[0:1]): the length byte of a type-3 address.
ReadLenSteps(s) ==
  { Fail(Log(s, Ev("read", "len", <<>>, FALSE)), "read") }
  \cup
  { LET b == Overlay(s.buf, <<n>>)
        r == Log([s EXCEPT !.buf = b], Ev("read", "len", <<n>>, TRUE))
    IN  [r EXCEPT !.pc = "addrRead", !.addrLen = b[1],
                  !.buf = Grow(b, b[1])]
    : n \in LenBytes }

\* io.ReadFull(rConn, buf[0:addrLen]): the bound address, discarded.  A
\* ReadFull of no bytes returns at once and cannot fail.
ReadAddrSteps(s) ==
  (IF s.addrLen = 0 THEN {}
   ELSE { Fail(Log(s, Ev("read", "addr", <<>>, FALSE)), "read") })
  \cup
  { LET data == Fill(s.addrLen, f)
        b == Overlay(s.buf, data)
    IN  [Log([s EXCEPT !.buf = b], Ev("read", "addr", data, TRUE))
           EXCEPT !.pc = "portRead"]
    : f \in (IF s.addrLen = 0 THEN {0} ELSE AddrFills) }

\* io.ReadFull(rConn, buf[0:2]): the bound port, discarded; then the
\* upstream connection is saved in the handler and Tunnel returns nil.
ReadPortSteps(s) ==
  { Fail(Log(s, Ev("read", "port", <<>>, FALSE)), "read") }
  \cup
  { LET b == Overlay(s.buf, data)
    IN  [Log([s EXCEPT !.buf = b], Ev("read", "port", data, TRUE))
           EXCEPT !.pc = "Established", !.rConn = "conn"]
    : data \in PortReplies }

(***************************************************************************)
(* One session                                                             *)
(***************************************************************************)

DialProxy ==
  /\ h.pc = "start"
  /\ h' \in DialProxySteps(h)
  /\ UNCHANGED <<upstream, hs, dial, call, table, cg>>
WriteGreeting ==
  /\ h.pc = "greetWrite"
  /\ h' \in WriteGreetingSteps(h)
  /\ UNCHANGED <<upstream, hs, dial, call, table, cg>>
ReadMethod ==
  /\ h.pc = "methodRead"
  /\ h' \in ReadMethodSteps(h)
  /\ UNCHANGED <<upstream, hs, dial, call, table, cg>>
WriteAuth ==
  /\ h.pc = "authWrite"
  /\ h' \in WriteAuthSteps(h)
  /\ UNCHANGED <<upstream, hs, dial, call, table, cg>>
ReadAuth ==
  /\ h.pc = "authRead"
  /\ h' \in ReadAuthSteps(h)
  /\ UNCHANGED <<upstream, hs, dial, call, table, cg>>
WriteConnect ==
  /\ h.pc = "connWrite"
  /\ h' \in WriteConnectSteps(h)
  /\ UNCHANGED <<upstream, hs, dial, call, table, cg>>
ReadHeader ==
  /\ h.pc = "hdrRead"
  /\ h' \in ReadHeaderSteps(h)
  /\ UNCHANGED <<upstream, hs, dial, call, table, cg>>
ReadAtyp ==
  /\ h.pc = "atypRead"
  /\ h' \in ReadAtypSteps(h)
  /\ UNCHANGED <<upstream, hs, dial, call, table, cg>>
ReadLen ==
  /\ h.pc = "lenRead"
  /\ h' \in ReadLenSteps(h)
  /\ UNCHANGED <<upstream, hs, dial, call, table, cg>>
ReadAddr ==
  /\ h.pc = "addrRead"
  /\ h' \in ReadAddrSteps(h)
  /\ UNCHANGED <<upstream, hs, dial, call, table, cg>>
ReadPort ==
  /\ h.pc = "portRead"
  /\ h' \in ReadPortSteps(h)
  /\ UNCHANGED <<upstream, hs, dial, call, table, cg>>

Next ==
  \/ DialProxy
  \/ WriteGreeting
  \/ ReadMethod
  \/ WriteAuth
  \/ ReadAuth
  \/ WriteConnect
  \/ ReadHeader
  \/ ReadAtyp
  \/ ReadLen
  \/ ReadAddr
  \/ ReadPort

Spec == Init /\ [][Next]_vars

(***************************************************************************)
(* Reading the trace of a session                                          *)
(***************************************************************************)

Trace == h.trace
Positions == 1..Len(Trace)
IsLast(i) == i = Len(Trace)

Is(i, op, what) == Trace[i].op = op /\ Trace[i].what = what
IsWrite(i, what) == Is(i, "write", what)
\* A read that returned data (no I/O error).
IsRead(i, what) == Is(i, "read", what) /\ Trace[i].ok

Reads == SelectSeq(Trace, LAMBDA e : e.op = "read")
Writes == SelectSeq(Trace, LAMBDA e : e.op = "write")
Dials == SelectSeq(Trace, LAMBDA e : e.op = "dial")
Whats(seq) == [i \in 1..Len(seq) |-> seq[i].what]

Range(f) == {f[i] : i \in DOMAIN f}

IsPrefix(a, b) == Len(a) <= Len(b) /\ SubSeq(b, 1, Len(a)) = a

EncodingErrors == {"ip invalid", "domain name out of max length"}

\* After position i the session is at the CONNECT stage: it did not stop
\* at i, the next thing written (if anything) is the CONNECT request, and
\* nothing but a target that cannot be encoded keeps it from being written.
AtConnectStage(i) ==
  /\ IsLast(i) =>
       \/ h.pc = "connWrite"
       \/ h.pc = "Failed" /\ h.err \in EncodingErrors
  /\ ~IsLast(i) => IsWrite(i + 1, "connectRequest")

\* A target the CONNECT request can carry.
ValidTarget ==
  \/ h.rAddr.type = "tcp" /\ Len(h.rAddr.IP) \in {4, 16}
  \/ h.rAddr.type = "domain" /\ Len(h.rAddr.Domain) <= 255

(***************************************************************************)
(* C1: the well-formed exchange reaches Established                        *)
(***************************************************************************)

ExampleProxy == [UserName |-> <<>>, Password |-> <<>>]
ExampleTarget ==
  [type |-> "tcp", IP |-> <<1, 2, 3, 4>>, Port |-> 80, Domain |-> <<>>]

\* Dial, 05 01 00 out, 05 00 in, the CONNECT to 1.2.3.4:80 out, and the
\* reply 05 00 00 01 00 00 00 00 00 00 in, as the four reads Tunnel makes.
ExampleExchange ==
  << Ev("dial", "proxy", <<>>, TRUE),
     Ev("write", "greeting", <<5, 1, 0>>, TRUE),
     Ev("read", "methodReply", <<5, 0>>, TRUE),
     Ev("write", "connectRequest", <<5, 1, 0, 1, 1, 2, 3, 4, 0, 80>>, TRUE),
     Ev("read", "header", <<5, 0, 0>>, TRUE),
     Ev("read", "atyp", <<1>>, TRUE),
     Ev("read", "addr", <<0, 0, 0, 0>>, TRUE),
     Ev("read", "port", <<0, 0>>, TRUE) >>

\* What the environment decided so far is what it decides in the example:
\* no call failed and every read returned the example's bytes.
FollowsExample ==
  /\ h.proxy = ExampleProxy
  /\ h.rAddr = ExampleTarget
  /\ Len(Trace) <= Len(ExampleExchange)
  /\ \A i \in Positions :
       /\ Trace[i].ok
       /\ Trace[i].op = "read" => Trace[i].data = ExampleExchange[i].data

\* Every call succeeded and every reply read so far is well-formed and
\* accepting: 05 00 or 05 02, an auth reply 01 .., a header 05 00 .., an
\* address type 1, 3 or 4.
AllRepliesAccepting ==
  \A i \in Positions :
    /\ Trace[i].ok
    /\ IsRead(i, "methodReply") =>
         /\ Len(Trace[i].data) >= 2
         /\ Trace[i].data[1] = 5
         /\ Trace[i].data[2] \in {0, 2}
    /\ IsRead(i, "authReply") => Trace[i].data[1] = 1
    /\ IsRead(i, "header") => Trace[i].data[1] = 5 /\ Trace[i].data[2] = 0
    /\ IsRead(i, "atyp") => Trace[i].data[1] \in {1, 3, 4}

\* C1: with empty credentials and target 1.2.3.4:80, while the upstream
\* answers 05 00 and then 05 00 00 01 00 00 00 00 00 00, Tunnel does
\* exactly the example exchange (it writes 05 01 00, then
\* 05 01 00 01 01 02 03 04 00 50, and nothing else), never fails, and at
\* the end of the exchange the session is Established with the upstream
\* connection stored in the handler; and no session whose target is valid
\* and whose replies were all well-formed and accepting is Failed.
C1_WellFormedExchangeEstablished ==
  /\ FollowsExample =>
       /\ IsPrefix(Trace, ExampleExchange)
       /\ h.pc # "Failed" /\ h.err = ""
       /\ Len(Trace) = Len(ExampleExchange) =>
            h.pc = "Established" /\ h.rConn = "conn"
       /\ Len(Trace) < Len(ExampleExchange) => h.pc # "Established"
  /\ (ValidTarget /\ AllRepliesAccepting) => (h.pc # "Failed" /\ h.err = "")

\* The example exchange, complete, in an Established session.
C1_Witness ==
  /\ h.pc = "Established"
  /\ h.proxy = ExampleProxy
  /\ Trace = ExampleExchange
  /\ h.rConn = "conn"

(***************************************************************************)
(* C2: the handler's upstream connection                                   *)
(***************************************************************************)

\* The method reply as Tunnel sees it: what the read left in the buffer
\* that held the greeting.
MethodBuf(i) == Overlay(Trace[i - 1].data, Trace[i].data)

\* The reads of a complete negotiation, in order.
CompleteReadOrders ==
  { m \o a \o <<"header", "atyp">> \o l \o <<"addr", "port">> :
      m \in {<<"methodReply">>},
      a \in {<<>>, <<"authReply">>},
      l \in {<<>>, <<"len">>} }

\* The expected length of the bound address, from the address type read
\* at position i and the length byte that follows it for type 3.
ReplyAddrLen(i) ==
  CASE Trace[i].data[1] = 1 -> 4
    [] Trace[i].data[1] = 4 -> 16
    [] Trace[i].data[1] = 3 ->
         IF i < Len(Trace) /\ IsRead(i + 1, "len")
         THEN Trace[i + 1].data[1] ELSE -1
    [] OTHER -> -1

\* Every reply of the negotiation was read, whole, and accepted.
NegotiationComplete ==
  /\ Whats(Reads) \in CompleteReadOrders
  /\ \A i \in Positions :
       /\ Trace[i].ok
       /\ IsRead(i, "methodReply") =>
            /\ MethodBuf(i)[1] = 5 /\ MethodBuf(i)[2] \in {0, 2}
            /\ (MethodBuf(i)[2] = 2) <=> ("authReply" \in Range(Whats(Reads)))
       /\ IsRead(i, "authReply") => Trace[i].data[1] \in {1, 5}
       /\ IsRead(i, "header") =>
            /\ Len(Trace[i].data) = 3
            /\ Trace[i].data[1] = 5 /\ Trace[i].data[2] = 0
       /\ IsRead(i, "atyp") =>
            /\ Trace[i].data[1] \in {1, 3, 4}
            /\ (Trace[i].data[1] = 3) <=> ("len" \in Range(Whats(Reads)))
            /\ \E j \in Positions :
                 IsRead(j, "addr") /\ Len(Trace[j].data) = ReplyAddrLen(i)
       /\ IsRead(i, "port") => Len(Trace[i].data) = 2 /\ IsLast(i)

\* C2: handler.rConn is absent unless the whole negotiation has succeeded:
\* when it is set, the session is Established without error, the method
\* reply, the auth reply (when method 2) and the complete CONNECT reply
\* (header, address type, address, port) were all read and accepted, and
\* it is the one connection the call dialed; a Failed session has none;
\* a call dials at most once.
C2_UpstreamOnlyWhenEstablished ==
  /\ h.rConn \in {"nil", "conn"}
  /\ h.rConn = "conn" =>
       /\ h.pc = "Established" /\ h.err = ""
       /\ h.conn = "open"
       /\ NegotiationComplete
  /\ h.pc = "Failed" => h.rConn = "nil" /\ h.err # ""
  /\ h.pc = "Established" => h.rConn = "conn"
  /\ Len(Dials) <= 1

\* An Established session that went through authentication and a
\* domain-name bound address.
C2_Witness ==
  /\ h.rConn = "conn"
  /\ "authReply" \in Range(Whats(Reads))
  /\ "len" \in Range(Whats(Reads))

(***************************************************************************)
(* C3: the order of the negotiation steps                                  *)
(***************************************************************************)

\* The reply read at position i is one Tunnel rejects.
Rejected(i) ==
  \/ IsRead(i, "methodReply") /\ ~(MethodBuf(i)[1] = 5 /\ MethodBuf(i)[2] \in {0, 2})
  \/ IsRead(i, "authReply") /\ Trace[i].data[1] \notin {1, 5}
  \/ IsRead(i, "header") /\ ~(Trace[i].data[1] = 5 /\ Trace[i].data[2] = 0)
  \/ IsRead(i, "atyp") /\ Trace[i].data[1] \notin {1, 3, 4}

\* C3: within one Tunnel call the upstream is dialed at most once and
\* first; the writes are a prefix of greeting, [auth request], CONNECT
\* request, each at most once; the auth request directly follows an
\* accepted method reply that selects method 2; the CONNECT request
\* directly follows an accepted method reply selecting 0 or an accepted auth
\* reply; and a failed call or a rejected reply is the last thing of the
\* call: nothing is written or read after it.
C3_StepsOrderedNoRetry ==
  /\ Len(Dials) <= 1
  /\ \A i \in Positions : Trace[i].op = "dial" <=> i = 1
  /\ \/ IsPrefix(Whats(Writes), <<"greeting", "authRequest", "connectRequest">>)
     \/ IsPrefix(Whats(Writes), <<"greeting", "connectRequest">>)
  /\ \A i \in Positions :
       /\ IsWrite(i, "greeting") => i = 2 /\ Trace[1].ok
       /\ IsRead(i, "methodReply") => i = 3 /\ IsWrite(2, "greeting")
       /\ IsWrite(i, "authRequest") =>
            /\ i = 4 /\ IsRead(3, "methodReply")
            /\ MethodBuf(3)[1] = 5 /\ MethodBuf(3)[2] = 2
       /\ IsRead(i, "authReply") => i = 5 /\ IsWrite(4, "authRequest")
       /\ IsWrite(i, "connectRequest") =>
            \/ /\ i = 4 /\ IsRead(3, "methodReply")
               /\ MethodBuf(3)[1] = 5 /\ MethodBuf(3)[2] = 0
            \/ /\ i = 6 /\ IsRead(5, "authReply")
               /\ Trace[5].data[1] \in {1, 5}
       /\ (~Trace[i].ok \/ Rejected(i)) => IsLast(i) /\ h.pc = "Failed"
  /\ h.pc = "Failed" => h.rConn = "nil"

\* A call that wrote all three messages and then had its CONNECT rejected.
C3_Witness ==
  /\ Whats(Writes) = <<"greeting", "authRequest", "connectRequest">>
  /\ h.pc = "Failed"
  /\ Rejected(Len(Trace))

(***************************************************************************)
(* C4: the CONNECT request carries the recovered destination               *)
(***************************************************************************)

\* The address and port a SOCKS5 server decodes from a CONNECT request
\* with address type 1 or 4.
DecodeConnect(msg) ==
  LET n == IF msg[4] = 1 THEN 4 ELSE 16 IN
  [addr |-> SubSeq(msg, 5, 4 + n),
   port |-> GetUint16(SubSeq(msg, 5 + n, 6 + n))]

\* Two literal addresses are the same address (net.IP.Equal): their
\* 16-byte forms are equal.
SameIP(a, b) == To16(a) # <<>> /\ To16(a) = To16(b)

\* C4: for every valid literal IPv4 or IPv6 target and every port 1..65535,
\* the address and the big-endian port decoded from the CONNECT request
\* Tunnel writes are the target's address and the target's port.
C4_ConnectCarriesTarget ==
  \A i \in Positions :
    (/\ IsWrite(i, "connectRequest")
     /\ h.rAddr.type = "tcp"
     /\ Len(h.rAddr.IP) \in {4, 16}
     /\ h.rAddr.Port \in 1..65535)
    => /\ Trace[i].data[4] \in {1, 4}
       /\ SameIP(DecodeConnect(Trace[i].data).addr, h.rAddr.IP)
       /\ DecodeConnect(Trace[i].data).port = h.rAddr.Port

(***************************************************************************)
(* C5, C6: the auth reply                                                  *)
(***************************************************************************)

AuthRejectedErr == "incorrect sock5 auth response"

\* The auth reply read at position i, first byte in accepted, is accepted
\* exactly when its first byte is in the set: then the session goes on to
\* the CONNECT request, otherwise Tunnel fails with the auth-rejected error
\* and writes no CONNECT request.
AuthReplyDecidedBy(accepted) ==
  \A i \in Positions :
    IsRead(i, "authReply") =>
      IF Trace[i].data[1] \in accepted
      THEN h.err # AuthRejectedErr /\ AtConnectStage(i)
      ELSE /\ h.pc = "Failed" /\ h.err = AuthRejectedErr
           /\ IsLast(i)
           /\ "connectRequest" \notin Range(Whats(Writes))

\* C5 as stated: after the server selects method 2 and the auth request is
\* sent, the auth reply is accepted if and only if its first byte is 0 or
\* 1; for every other first byte Tunnel fails with the auth-rejected error
\* and writes no CONNECT request.
C5_AuthReplyAccepted0or1 == AuthReplyDecidedBy({0, 1})

\* C5 amended: the auth reply is accepted if and only if its first byte is
\* 1 or 5; for every other first byte (0 included) Tunnel fails with the
\* auth-rejected error and writes no CONNECT request.
C5_AuthReplyAccepted1or5 == AuthReplyDecidedBy({1, 5})

\* An auth reply starting with 5 was accepted, and one starting with 0 is
\* the kind rejected: here the accepted one, at the CONNECT write.
C5_Witness ==
  /\ Len(Trace) = 5 /\ IsRead(5, "authReply")
  /\ Trace[5].data[1] = 5
  /\ h.pc = "connWrite"

\* C6: given a method reply selecting method 2 followed by an auth reply
\* whose first byte is 1, Tunnel does not fail at the auth step and is at
\* the CONNECT stage: the CONNECT request is what it writes next, and for
\* a valid target it is about to be written.
C6_AuthReplyOneProceeds ==
  \A i \in Positions :
    (/\ IsRead(i, "authReply") /\ Trace[i].data[1] = 1
     /\ IsRead(3, "methodReply") /\ MethodBuf(3)[2] = 2)
    => /\ h.err # AuthRejectedErr
       /\ AtConnectStage(i)
       /\ (IsLast(i) /\ ValidTarget) => h.pc = "connWrite"

\* Method 2 selected by a full 2-byte reply, auth reply 01, and the CONNECT
\* request written next.
C6_Witness ==
  /\ Len(Trace) >= 6
  /\ IsRead(3, "methodReply") /\ Trace[3].data = <<5, 2>>
  /\ IsRead(5, "authReply") /\ Trace[5].data[1] = 1
  /\ IsWrite(6, "connectRequest") /\ Trace[6].ok

(***************************************************************************)
(* C7, C8: the method reply                                                *)
(***************************************************************************)

ProtoInvalidErr == "sock5 proto is invalid"

\* C7: when the version byte of the method reply is not 5, whatever the
\* method byte, Tunnel fails, and the read of that reply is the last thing
\* it does on the upstream connection: no auth request and no CONNECT
\* request is written.
C7_BadVersionFailsNoWrite ==
  \A i \in Positions :
    (IsRead(i, "methodReply") /\ Trace[i].data[1] # 5)
    => /\ h.pc = "Failed" /\ h.err = ProtoInvalidErr
       /\ h.rConn = "nil"
       /\ IsLast(i)
       /\ Whats(Writes) = <<"greeting">>

\* A reply 00 02 (method 2 under a wrong version) ended the call.
C7_Witness ==
  /\ Len(Trace) = 3 /\ IsRead(3, "methodReply")
  /\ Trace[3].data = <<0, 2>>
  /\ h.pc = "Failed"

\* C8: for a method reply with version 5 and a method byte: a method that
\* is neither 0 nor 2 makes Tunnel fail with the method-rejected error;
\* after method 2 the next write is the auth request; after method 0 no
\* auth request is ever written and the next write is the CONNECT request.
C8_MethodSelection ==
  \A i \in Positions :
    (/\ IsRead(i, "methodReply")
     /\ Len(Trace[i].data) >= 2 /\ Trace[i].data[1] = 5)
    => LET m == Trace[i].data[2] IN
       /\ m \notin {0, 2} =>
            /\ h.pc = "Failed" /\ h.err = ProtoInvalidErr
            /\ IsLast(i)
       /\ m = 2 =>
            /\ h.err # ProtoInvalidErr
            /\ IsLast(i) => h.pc = "authWrite"
            /\ ~IsLast(i) => IsWrite(i + 1, "authRequest")
       /\ m = 0 =>
            /\ h.err # ProtoInvalidErr
            /\ "authRequest" \notin Range(Whats(Writes))
            /\ AtConnectStage(i)
            /\ (IsLast(i) /\ ValidTarget) => h.pc = "connWrite"

\* Method 2 was selected and the auth request written.
C8_Witness ==
  /\ Len(Trace) >= 4
  /\ IsRead(3, "methodReply") /\ Trace[3].data = <<5, 2>>
  /\ IsWrite(4, "authRequest") /\ Trace[4].ok

(***************************************************************************)
(* C9: the CONNECT reply                                                   *)
(***************************************************************************)

ConnectRejectedErr == "incorrect sock5 connect reponse"

\* The reads made after position i, in order.
ReadsAfter(i) ==
  Whats(SelectSeq(SubSeq(Trace, i + 1, Len(Trace)),
                  LAMBDA e : e.op = "read"))

\* C9: after the CONNECT request Tunnel reads the 3-byte header and fails
\* with the connect-rejected error whenever the version is not 5 or the
\* reply code is not 0; only after a header 05 00 xx does it read the
\* address type, then 4 (type 1), 16 (type 4) or length-prefixed (type 3)
\* address bytes, then 2 port bytes; any other address type and any failed
\* read end the call Failed; and a session is Established only after all
\* of these were read.
C9_ConnectReply ==
  /\ \A i \in Positions :
       /\ IsRead(i, "header") =>
            /\ i > 1 /\ IsWrite(i - 1, "connectRequest")
            /\ Len(Trace[i].data) = 3
            /\ IF Trace[i].data[1] # 5 \/ Trace[i].data[2] # 0
               THEN /\ h.pc = "Failed" /\ h.err = ConnectRejectedErr
                    /\ IsLast(i)
               ELSE /\ h.err # ConnectRejectedErr
                    /\ IsLast(i) => h.pc = "atypRead"
                    /\ ~IsLast(i) => Is(i + 1, "read", "atyp")
       /\ IsRead(i, "atyp") =>
            /\ IsRead(i - 1, "header")
            /\ Trace[i].data[1] \notin {1, 3, 4} =>
                 h.pc = "Failed" /\ h.err = "invalid ip" /\ IsLast(i)
            /\ Trace[i].data[1] \in {1, 4} =>
                 /\ IsLast(i) => h.pc = "addrRead"
                 /\ ~IsLast(i) => Is(i + 1, "read", "addr")
            /\ Trace[i].data[1] = 3 =>
                 /\ IsLast(i) => h.pc = "lenRead"
                 /\ ~IsLast(i) => Is(i + 1, "read", "len")
            /\ \A j \in Positions :
                 IsRead(j, "addr") => Len(Trace[j].data) = ReplyAddrLen(i)
       /\ IsRead(i, "len") =>
            /\ IsRead(i - 1, "atyp") /\ Trace[i - 1].data[1] = 3
            /\ IsLast(i) => h.pc = "addrRead"
            /\ ~IsLast(i) => Is(i + 1, "read", "addr")
       /\ IsRead(i, "addr") =>
            /\ IsRead(i - 1, "atyp") \/ IsRead(i - 1, "len")
            /\ IsLast(i) => h.pc = "portRead"
            /\ ~IsLast(i) => Is(i + 1, "read", "port")
       /\ IsRead(i, "port") =>
            /\ IsRead(i - 1, "addr")
            /\ Len(Trace[i].data) = 2
            /\ IsLast(i) /\ h.pc = "Established"
       /\ ~Trace[i].ok => h.pc = "Failed" /\ IsLast(i)
  /\ h.pc = "Established" =>
       \E i \in Positions :
         /\ IsRead(i, "header")
         /\ Trace[i].data[1] = 5 /\ Trace[i].data[2] = 0
         /\ ReadsAfter(i) \in {<<"atyp", "addr", "port">>,
                               <<"atyp", "len", "addr", "port">>}

\* An Established session whose CONNECT reply carried a 16-byte address.
C9_Witness ==
  /\ h.pc = "Established"
  /\ \E i \in Positions : IsRead(i, "atyp") /\ Trace[i].data[1] = 4
  /\ \E j \in Positions : IsRead(j, "addr") /\ Len(Trace[j].data) = 16

(***************************************************************************)
(* C10: teardown after failure                                             *)
(***************************************************************************)

\* C10: whenever Tunnel has returned an error after the upstream proxy was
\* dialed, the upstream connection has been closed or is stored in the
\* handler, where the caller can close it.
C10_FailureTearsDown ==
  (h.pc = "Failed" /\ h.conn # "none")
  => (h.conn = "closed" \/ h.rConn = "conn")

(***************************************************************************)
(* A session whose upstream may fall silent.  A Read or io.ReadFull on the *)
(* upstream connection returns when bytes arrive or the connection breaks; *)
(* Tunnel sets no deadline on the connection (no SetDeadline,              *)
(* SetReadDeadline or SetWriteDeadline call), so while the upstream is     *)
(* silent a read does not return.                                          *)
(***************************************************************************)

\* The upstream proxy stops sending, for good.
UpstreamStalls ==
  /\ upstream = "live"
  /\ h.pc \notin {"start", "Established", "Failed"}
  /\ upstream' = "silent"
  /\ UNCHANGED <<h, hs, dial, call, table, cg>>

\* The calls of Tunnel that do not wait for the upstream to send.
TunnelSends ==
  \/ DialProxy
  \/ WriteGreeting
  \/ WriteAuth
  \/ WriteConnect

\* The reads of Tunnel: each returns only while the upstream is live.
TunnelReceives ==
  /\ upstream = "live"
  /\ \/ ReadMethod
     \/ ReadAuth
     \/ ReadHeader
     \/ ReadAtyp
     \/ ReadLen
     \/ ReadAddr
     \/ ReadPort

TunnelStep == TunnelSends \/ TunnelReceives

NextBlocking ==
  \/ UpstreamStalls
  \/ TunnelSends
  \/ TunnelReceives

\* The goroutine running Tunnel is scheduled whenever it can take a step.
SpecBlocking == Init /\ [][NextBlocking]_vars /\ WF_vars(TunnelStep)

(***************************************************************************)
(* C11: termination                                                        *)
(***************************************************************************)

Terminated == h.pc \in {"Established", "Failed"}

\* C11: every Tunnel call eventually ends Established or Failed, also
\* when the upstream proxy accepts the connection and then never sends, or
\* stops sending, a reply.
C11_EventuallyTerminates == <>Terminated

(***************************************************************************)
(* C12: domain-name targets                                                *)
(***************************************************************************)

NameTooLongErr == "domain name out of max length"

\* The session got past the method and auth stages, to where the CONNECT
\* request is built.
ReachedConnectStage ==
  \/ h.pc \in {"connWrite", "hdrRead", "atypRead", "lenRead", "addrRead",
               "portRead", "Established"}
  \/ h.pc = "Failed" /\ h.err \in EncodingErrors
  \/ "connectRequest" \in Range(Whats(Writes))

\* C12: for every domain-name target of 0..255 bytes the CONNECT request is
\* 05 01 00 03 <len> <name> <port>, with <len> the name's length and <port>
\* the target's port (80 when the target names none), and encoding
\* succeeds; for every name of 256 bytes or more Tunnel fails with the
\* name-too-long error and writes no CONNECT request.
C12_DomainNameEncoding ==
  h.rAddr.type = "domain" =>
    LET name == h.rAddr.Domain
        p == IF h.rAddr.Port = 0 THEN 80 ELSE h.rAddr.Port
    IN  IF Len(name) <= 255
        THEN /\ h.err \notin EncodingErrors
             /\ \A i \in Positions :
                  IsWrite(i, "connectRequest") =>
                    Trace[i].data =
                      <<5, 1, 0, 3, Len(name)>> \o name
                        \o << p \div 256, p % 256 >>
        ELSE /\ "connectRequest" \notin Range(Whats(Writes))
             /\ ReachedConnectStage =>
                  h.pc = "Failed" /\ h.err = NameTooLongErr

(***************************************************************************)
(* C13: literal targets                                                    *)
(***************************************************************************)

\* The address-type byte and the address bytes of a CONNECT request.
RequestAtyp(msg) == msg[4]
RequestAddr(msg) == SubSeq(msg, 5, Len(msg) - 2)

\* An address has a 4-byte form: it is 4 bytes long, or 16 bytes long
\* with the IPv4-mapped prefix.
RepresentableIn4(ip) ==
  \/ Len(ip) = 4
  \/ Len(ip) = 16 /\ SubSeq(ip, 1, 10) = Fill(10, 0)
                  /\ ip[11] = 255 /\ ip[12] = 255

FourByteForm(ip) == IF Len(ip) = 4 THEN ip ELSE SubSeq(ip, 13, 16)

\* C13: a literal target is classified by representability: an address
\* representable in 4 bytes (an IPv4 address held in 16-byte IPv4-mapped
\* form included) is sent with ATYP=1 and its 4 bytes, every other 16-byte
\* address with ATYP=4 and its 16 bytes, and with an address that is
\* neither Tunnel fails with the address-invalid error and writes no
\* CONNECT request.
C13_LiteralByRepresentability ==
  h.rAddr.type = "tcp" =>
    LET ip == h.rAddr.IP IN
    /\ \A i \in Positions :
         IsWrite(i, "connectRequest") =>
           IF RepresentableIn4(ip)
           THEN /\ RequestAtyp(Trace[i].data) = 1
                /\ RequestAddr(Trace[i].data) = FourByteForm(ip)
           ELSE /\ Len(ip) = 16
                /\ RequestAtyp(Trace[i].data) = 4
                /\ RequestAddr(Trace[i].data) = ip
    /\ (~RepresentableIn4(ip) /\ Len(ip) # 16) =>
         /\ "connectRequest" \notin Range(Whats(Writes))
         /\ ReachedConnectStage => h.pc = "Failed" /\ h.err = "ip invalid"

(***************************************************************************)
(* C14: the greeting                                                       *)
(***************************************************************************)

\* The methods a greeting 05 <n> <methods> offers.
OfferedMethods(msg) == {msg[i] : i \in 3..Len(msg)}

\* C14: the greeting Tunnel writes is exactly 05 02 00 02 when the
\* username and the password are both non-empty and exactly 05 01 00
\* otherwise, also when only one of the two is non-empty: method 2 is
\* offered if and only if both are non-empty.
C14_GreetingMethods ==
  \A i \in Positions :
    IsWrite(i, "greeting") =>
      LET both == Len(h.proxy.UserName) > 0 /\ Len(h.proxy.Password) > 0
          msg == Trace[i].data
      IN  /\ both => msg = <<5, 2, 0, 2>>
          /\ ~both => msg = <<5, 1, 0>>
          /\ msg[2] = Len(msg) - 2
          /\ (2 \in OfferedMethods(msg)) <=> both

\* A greeting written for a configuration with a username and no password.
C14_Witness ==
  /\ Len(Trace) >= 2 /\ IsWrite(2, "greeting") /\ Trace[2].ok
  /\ h.proxy.UserName # <<>> /\ h.proxy.Password = <<>>
  /\ Trace[2].data = <<5, 1, 0>>

(***************************************************************************)
(* Several sessions.  Each accepted flow gets its own handler from         *)
(* NewTcpSock5Handler and runs Tunnel in its own goroutine on the upstream *)
(* connection it dialed; Tunnel reads and writes only that handler, its    *)
(* locals and that connection.                                             *)
(***************************************************************************)

\* Number of concurrent sessions.
ConcSessions == 2

Sessions == 1..ConcSessions

\* The next call of Tunnel in session s, with every result it can have.
StepsOf(s) ==
  CASE s.pc = "start" -> DialProxySteps(s)
    [] s.pc = "greetWrite" -> WriteGreetingSteps(s)
    [] s.pc = "methodRead" -> ReadMethodSteps(s)
    [] s.pc = "authWrite" -> WriteAuthSteps(s)
    [] s.pc = "authRead" -> ReadAuthSteps(s)
    [] s.pc = "connWrite" -> WriteConnectSteps(s)
    [] s.pc = "hdrRead" -> ReadHeaderSteps(s)
    [] s.pc = "atypRead" -> ReadAtypSteps(s)
    [] s.pc = "lenRead" -> ReadLenSteps(s)
    [] s.pc = "addrRead" -> ReadAddrSteps(s)
    [] s.pc = "portRead" -> ReadPortSteps(s)
    [] OTHER -> {}

\* What the upstreams of the concurrent sessions send at each read: whole
\* replies, accepting and rejecting ones.
ConcReplies(what) ==
  CASE what = "methodReply" -> {<<5, 0>>, <<5, 2>>, <<0, 0>>}
    [] what = "authReply" -> {<<1>>, <<0>>}
    [] what = "header" -> {<<5, 0, 0>>, <<5, 1, 0>>}
    [] what = "atyp" -> {<<1>>}
    [] what = "addr" -> {Fill(4, 0)}
    [] what = "port" -> {<<0, 0>>}
    [] OTHER -> {}

ConcInput(e) == (e.op = "read" /\ e.ok) => e.data \in ConcReplies(e.what)

\* Odd sessions: no credentials, target 1.2.3.4:80.  Even sessions:
\* username and password, target the domain name "a", port 443.
ConcHandler(i) ==
  IF i % 2 = 1
  THEN NewTcpSock5Handler([UserName |-> <<>>, Password |-> <<>>],
         [type |-> "tcp", IP |-> <<1, 2, 3, 4>>, Port |-> 80,
          Domain |-> <<>>])
  ELSE NewTcpSock5Handler([UserName |-> <<117>>, Password |-> <<112>>],
         [type |-> "domain", IP |-> <<>>, Port |-> 443, Domain |-> <<97>>])

InitConc ==
  /\ hs = [i \in Sessions |-> ConcHandler(i)]
  /\ h = NewTcpSock5Handler([UserName |-> <<>>, Password |-> <<>>],
                            [type |-> "udp", IP |-> <<>>, Port |-> 0,
                             Domain |-> <<>>])
  /\ upstream = "live"
  /\ dial = NoDial
  /\ call = NoCall
  /\ table = NoTable
  /\ cg = NoManager

\* Mutant: the upstream connection is kept in one place shared by all
\* handlers, so the session that ends Established sets it for every session.
SessionStepsSharedConn(i) ==
  { [j \in Sessions |->
       IF j = i THEN t
       ELSE IF t.pc = "Established" THEN [hs[j] EXCEPT !.rConn = "conn"]
            ELSE hs[j]]
    : t \in {u \in StepsOf(hs[i]) : ConcInput(u.trace[Len(u.trace)])} }

\* One call of Tunnel in session i: only session i changes.
SessionSteps(i) ==
  { [hs EXCEPT ![i] = t]
    : t \in {u \in StepsOf(hs[i]) : ConcInput(u.trace[Len(u.trace)])} }

SessionStep ==
  /\ \E i \in Sessions : hs' \in SessionSteps(i)
  /\ UNCHANGED <<h, upstream, dial, call, table, cg>>

NextConc == SessionStep

SpecConc == InitConc /\ [][NextConc]_vars

(***************************************************************************)
(* C15: concurrent sessions are isolated                                   *)
(***************************************************************************)

\* The states a session started in state s passes through when it runs
\* alone, with the same upstream replies on offer.
RECURSIVE RunsAlone(_, _)
RunsAlone(frontier, seen) ==
  IF frontier = {} THEN seen
  ELSE LET next == UNION { {u \in StepsOf(s) : ConcInput(u.trace[Len(u.trace)])}
                           : s \in frontier }
       IN  RunsAlone(next \ seen, seen \cup next)

Alone ==
  [i \in Sessions |-> RunsAlone({ConcHandler(i)}, {ConcHandler(i)})]

MaxDials == 2

\* The handler of a process that runs no Tunnel.
NoTunnel ==
  NewTcpSock5Handler([UserName |-> <<>>, Password |-> <<>>],
                     [type |-> "udp", IP |-> <<>>, Port |-> 0, Domain |-> <<>>])

\* Callers' inputs: *net.TCPAddr and *net.UDPAddr values, and network names.
DialNetworks == {"tcp", "udp", "ip"}

DialV4 == <<1, 2, 3, 4>>
DialV6 == <<32, 1, 13, 184>> \o Fill(11, 0) \o <<1>>

DialAddrs ==
  { [kind |-> "tcp", IP |-> DialV4, Port |-> 443],
    [kind |-> "tcp", IP |-> DialV4, Port |-> 0],
    [kind |-> "tcp", IP |-> DialV6, Port |-> 443],
    [kind |-> "tcp", IP |-> <<1, 2, 3>>, Port |-> 443],
    [kind |-> "udp", IP |-> DialV4, Port |-> 443],
    [kind |-> "udp", IP |-> DialV6, Port |-> 443] }

\* The system call that fails in a call of MegaDial, if one does.
DialEnvs ==
  { "none", "socket", "getsockopt", "reuseaddr", "transparent",
    "recvorigdstaddr", "bind", "connect", "fileconn" }

MismatchErr == "dial local addr is not match with remote addr"
LocalIPErr == "local ip is incorrect"
ConvertErr == "ip is not ipv4 or ipv6"

\* One system call as MegaDial's log records it.
Sys(name, arg, ok) == [call |-> name, arg |-> arg, ok |-> ok]

\* The error a failed system call returns.
Errno(name) == "errno: " \o name

\* What MegaDial returns, the descriptor it created (0: none) and the system
\* calls it made.
DialReturn(conn, err, fd, log) ==
  [conn |-> conn, err |-> err, fd |-> fd, log |-> log]

\* SetSockOptTrn(fd): the socket type is read, then three options are set;
\* the first call that fails ends it.  The socket was created as a stream
\* or datagram socket, so the type check passes.
SetSockOptTrn(fd, env) ==
  LET calls == << <<"getsockopt SO_TYPE", "getsockopt">>,
                  <<"setsockopt SO_REUSEADDR", "reuseaddr">>,
                  <<"setsockopt IP_TRANSPARENT", "transparent">>,
                  <<"setsockopt IP_RECVORIGDSTADDR", "recvorigdstaddr">> >>
      failed == {k \in 1..Len(calls) : calls[k][2] = env}
      last == IF failed = {} THEN Len(calls) ELSE CHOOSE k \in failed : TRUE
  IN  [err |-> IF failed = {} THEN "" ELSE Errno(env),
       log |-> [k \in 1..last |-> Sys(calls[k][1], fd, k \notin failed)]]

\* convertAddrToSockAddr(addr): port 0 becomes 80; the 4-byte form gives a
\* SockaddrInet4, the 16-byte form a SockaddrInet6.
convertAddrToSockAddr(addr) ==
  LET port == IF addr.Port = 0 THEN DefaultPort ELSE addr.Port IN
  IF To4(addr.IP) # <<>>
  THEN [err |-> "", family |-> "AF_INET", Addr |-> To4(addr.IP),
        Port |-> port]
  ELSE IF To16(addr.IP) # <<>>
       THEN [err |-> "", family |-> "AF_INET6", Addr |-> To16(addr.IP),
             Port |-> port]
       ELSE [err |-> ConvertErr, family |-> "none", Addr |-> <<>>, Port |-> 0]

\* The address family MegaDial derives from the local address alone.
DialDomain(lAddr) ==
  IF To4(lAddr.IP) # <<>> THEN "AF_INET"
  ELSE IF To16(lAddr.IP) # <<>> THEN "AF_INET6"
       ELSE "none"

\* The socket type MegaDial derives from the network name (0 for a name
\* that is neither "tcp" nor "udp").
DialTyp(network) ==
  IF network = "tcp" THEN "SOCK_STREAM"
  ELSE IF network = "udp" THEN "SOCK_DGRAM"
       ELSE "0"

\* reflect.TypeOf(lAddr) = reflect.TypeOf(rAddr)
MegaDialTypesMatch(lAddr, rAddr) == lAddr.kind = rAddr.kind

\* Whether the kernel can connect a socket of this family and type to the
\* socket address sa: to an address of the socket's family, and a datagram
\* socket of family AF_INET6 also to an AF_INET address.
ConnectPossible(domain, typ, sa) ==
  \/ sa.family = domain
  \/ domain = "AF_INET6" /\ typ = "SOCK_DGRAM" /\ sa.family = "AF_INET"

\* MegaDial(network, lAddr, rAddr) when fd is the descriptor the kernel
\* hands out and env the system call that fails.  The kernel creates no
\* socket of type 0.  No path closes the descriptor.
MegaDial(network, lAddr, rAddr, env, fd) ==
  IF ~MegaDialTypesMatch(lAddr, rAddr)
  THEN DialReturn("nil", MismatchErr, 0, <<>>)
  ELSE IF DialDomain(lAddr) = "none"
  THEN DialReturn("nil", LocalIPErr, 0, <<>>)
  ELSE
  LET domain == DialDomain(lAddr)
      typ == DialTyp(network)
      socket == Sys("socket", <<domain, typ>>, env # "socket" /\ typ # "0")
      opt == SetSockOptTrn(fd, env)
      lSockAddr == convertAddrToSockAddr(lAddr)
      rSockAddr == convertAddrToSockAddr(rAddr)
      bind == Sys("bind", lSockAddr, env # "bind")
      connect == Sys("connect", rSockAddr,
                     env # "connect" /\ ConnectPossible(domain, typ, rSockAddr))
      fileConn == Sys("FileConn", fd, env # "fileconn")
  IN
  IF ~socket.ok
  THEN DialReturn("nil", Errno("socket"), 0, <<socket>>)
  ELSE IF opt.err # ""
  THEN DialReturn("nil", opt.err, fd, <<socket>> \o opt.log)
  ELSE IF lSockAddr.err # ""
  THEN DialReturn("nil", lSockAddr.err, fd, <<socket>> \o opt.log)
  ELSE IF rSockAddr.err # ""
  THEN DialReturn("nil", rSockAddr.err, fd, <<socket>> \o opt.log)
  ELSE IF ~bind.ok
  THEN DialReturn("nil", Errno("bind"), fd, <<socket>> \o opt.log \o <<bind>>)
  ELSE IF ~connect.ok
  THEN DialReturn("nil", Errno("connect"), fd,
                  <<socket>> \o opt.log \o <<bind, connect>>)
  ELSE IF ~fileConn.ok
  THEN DialReturn("nil", Errno("fileconn"), fd,
                  <<socket>> \o opt.log \o <<bind, connect, fileConn>>)
  ELSE DialReturn("conn", "", fd,
                  <<socket>> \o opt.log \o <<bind, connect, fileConn>>)

\* The descriptors of log that a close call released.
ClosedBy(log) ==
  {log[k].arg : k \in {j \in 1..Len(log) : log[j].call = "close"}}

\* One call of MegaDial: the descriptors it created and did not close stay
\* open in the process.
MegaDialCall ==
  /\ dial.calls < MaxDials
  /\ \E network \in DialNetworks, lAddr \in DialAddrs, rAddr \in DialAddrs,
        env \in DialEnvs :
       LET fd == 3 + Cardinality(dial.open)
           r == MegaDial(network, lAddr, rAddr, env, fd)
       IN  dial' = [calls |-> dial.calls + 1,
                    open |-> (dial.open \cup ({r.fd} \ {0})) \ ClosedBy(r.log),
                    last |-> [fn |-> "MegaDial", network |-> network,
                              lAddr |-> lAddr, rAddr |-> rAddr,
                              conn |-> r.conn, err |-> r.err, fd |-> r.fd,
                              log |-> r.log]]
  /\ UNCHANGED <<h, upstream, hs, call, table, cg>>

InitDial ==
  /\ dial = NoDial
  /\ h = NoTunnel
  /\ upstream = "live"
  /\ hs = NoSessions
  /\ call = NoCall
  /\ table = NoTable
  /\ cg = NoManager

NextDial == MegaDialCall

SpecDial == InitDial /\ [][NextDial]_vars

\* The system calls of the last MegaDial that succeeded, by name.
DialCalls ==
  {dial.last.log[k].call :
     k \in {j \in 1..Len(dial.last.log) : dial.last.log[j].ok}}

MegaDialReturned == dial.last.fn = "MegaDial"

(***************************************************************************)
(* C16: a failed dial releases its descriptor                              *)
(***************************************************************************)

\* C16: whenever MegaDial returns an error after it created the socket
\* descriptor, that descriptor is closed when the error is returned; so
\* after failed dials only, no descriptor is open.
C16_FailedDialReleasesDescriptor ==
  (MegaDialReturned /\ dial.last.err # "" /\ dial.last.fd # 0)
    => dial.last.fd \notin dial.open

(***************************************************************************)
(* C17: mismatched addresses are refused before any socket                 *)
(***************************************************************************)

\* The address family of an address: that of its 4-byte or 16-byte form.
FamilyOf(addr) == DialDomain(addr)

AddrsAgree(lAddr, rAddr) ==
  /\ lAddr.kind = rAddr.kind
  /\ FamilyOf(lAddr) = FamilyOf(rAddr)

\* C17: when the local and remote addresses differ in transport kind or in
\* address family, MegaDial returns the address-mismatch error and no
\* socket is created or bound; a socket is created only when both agree.
C17_MismatchRefusedBeforeSocket ==
  MegaDialReturned =>
    /\ ~AddrsAgree(dial.last.lAddr, dial.last.rAddr)
         => /\ dial.last.err = MismatchErr
            /\ DialCalls \cap {"socket", "bind"} = {}
    /\ "socket" \in DialCalls
         => AddrsAgree(dial.last.lAddr, dial.last.rAddr)

(***************************************************************************)
(* UDP: destination recovery and the datagram codec                        *)
(***************************************************************************)

\* The longest payload of a packet and the most records of a control
\* message buffer.
MaxData == 2
MaxMsgs == 2

SOL_IP == 0
SOL_SOCKET == 1
SOL_IPV6 == 41
IP_RECVORIGDSTADDR == 20
SizeofCmsghdr == 16
UdpHeaderLen == 10

\* s[lo:hi] of a Go slice holding the bytes data with the bytes rest behind
\* them in its backing array: the bound is the capacity, not the length.
\* It panics when hi is beyond the capacity.
SliceOf(data, rest, lo, hi) ==
  IF hi > Len(data) + Len(rest) THEN [panic |-> TRUE, bytes |-> <<>>]
  ELSE [panic |-> FALSE, bytes |-> SubSeq(data \o rest, lo + 1, hi)]

\* A control message header as the kernel lays it out (little-endian
\* length, level, type), its data and the padding to the next 8 bytes.
CmsgPad(n) == (8 - (n % 8)) % 8

EncodeCmsg(m) ==
  <<SizeofCmsghdr + Len(m.Data)>> \o Fill(7, 0)
    \o <<m.Level>> \o Fill(3, 0) \o <<m.Type>> \o Fill(3, 0)
    \o m.Data \o Fill(CmsgPad(Len(m.Data)), 0)

RECURSIVE EncodeCmsgs(_)
EncodeCmsgs(ms) ==
  IF ms = <<>> THEN <<>> ELSE EncodeCmsg(Head(ms)) \o EncodeCmsgs(Tail(ms))

\* The bytes behind the data of record k in the buffer's backing array: its
\* padding, the records after it and the unused capacity.
RestOf(buf, k) ==
  Fill(CmsgPad(Len(buf.msgs[k].Data)), 0)
    \o EncodeCmsgs(SubSeq(buf.msgs, k + 1, Len(buf.msgs)))
    \o buf.spare

\* sockaddr_in (16 bytes) and sockaddr_in6 (28 bytes) of 1.2.3.4:443 and
\* [2001:db8::1]:443, and truncated ones.
SockaddrIn == <<2, 0, 1, 187, 1, 2, 3, 4>> \o Fill(8, 0)
SockaddrIn6 == <<10, 0, 1, 187>> \o Fill(4, 0) \o DialV6 \o Fill(4, 0)

Cmsgs ==
  { [Level |-> SOL_IP, Type |-> IP_RECVORIGDSTADDR, Data |-> SockaddrIn],
    [Level |-> SOL_IP, Type |-> IP_RECVORIGDSTADDR,
     Data |-> SubSeq(SockaddrIn, 1, 4)],
    [Level |-> SOL_IPV6, Type |-> IP_RECVORIGDSTADDR, Data |-> SockaddrIn6],
    [Level |-> SOL_IPV6, Type |-> IP_RECVORIGDSTADDR,
     Data |-> SubSeq(SockaddrIn6, 1, 8)],
    [Level |-> SOL_IP, Type |-> 2, Data |-> <<64, 0, 0, 0>>],
    [Level |-> SOL_SOCKET, Type |-> IP_RECVORIGDSTADDR, Data |-> <<>>] }

\* The buffers handed to ParseRemoteAddrFromMsgHdr: nil, one whose record
\* lengths are inconsistent, and well-formed ones of up to MaxMsgs records,
\* with and without unused capacity behind them.
MsgHdrBufs ==
  { [kind |-> "nil"], [kind |-> "malformed"] }
    \cup { [kind |-> "oob", msgs |-> ms, spare |-> sp]
           : ms \in {<<>>} \cup SeqsUpTo(Cmsgs, MaxMsgs),
             sp \in {<<>>, Fill(24, 170)} }

NilBufErr == "parse buf is nil"
NotFoundErr == "sol_ip type is not found int msg_hdr"
CmsgErr == "errno: EINVAL"

\* What ParseRemoteAddrFromMsgHdr returns: addr is <<>> for nil, or holds
\* the one address.
ParseReturn(addr, err, panic) == [addr |-> addr, err |-> err, panic |-> panic]

\* The record is an original-destination record of the IPv4 level, of the
\* IPv6 level.
IsOrigDst4(m) == m.Level = SOL_IP /\ m.Type = IP_RECVORIGDSTADDR
IsOrigDst6(m) == m.Level = SOL_IPV6 /\ m.Type = IP_RECVORIGDSTADDR

\* The loop of ParseRemoteAddrFromMsgHdr from record k on, addr being the
\* address found so far: the slices of msg.Data are taken without a check
\* of its length.
RECURSIVE ParseLoop(_, _, _)
ParseLoop(buf, k, addr) ==
  IF k > Len(buf.msgs)
  THEN IF addr = <<>> THEN ParseReturn(<<>>, NotFoundErr, FALSE)
       ELSE ParseReturn(addr, "", FALSE)
  ELSE
  LET msg == buf.msgs[k]
      rest == RestOf(buf, k)
      ip == IF IsOrigDst4(msg) THEN SliceOf(msg.Data, rest, 4, 8)
            ELSE SliceOf(msg.Data, rest, 8, 24)
      port == SliceOf(msg.Data, rest, 2, 4)
  IN  IF ~(IsOrigDst4(msg) \/ IsOrigDst6(msg))
      THEN ParseLoop(buf, k + 1, addr)
      ELSE IF ip.panic \/ port.panic
      THEN ParseReturn(<<>>, "", TRUE)
      ELSE ParseLoop(buf, k + 1,
                     <<[IP |-> ip.bytes, Port |-> GetUint16(port.bytes)]>>)

ParseRemoteAddrFromMsgHdr(buf) ==
  IF buf.kind = "nil" THEN ParseReturn(<<>>, NilBufErr, FALSE)
  ELSE IF buf.kind = "malformed" THEN ParseReturn(<<>>, CmsgErr, FALSE)
  ELSE ParseLoop(buf, 1, <<>>)

\* Packets: an address (*net.UDPAddr) and a payload.
Payloads == {<<>>} \cup SeqsUpTo({7, 9}, MaxData)

PkgAddrs == [IP : IPs, Port : {0, 80, 443, 65535}]

DataPackages == [Addr : PkgAddrs, Data : Payloads]

Protos == {"udp", "tcp", "icmp"}

\* Mutant: the port is written low byte first.
MarshalPackageLittleEndian(pkg, proto) ==
  IF proto # "udp" THEN <<>>
  ELSE LET ip == pkg.Addr.IP
           head == IF To4(ip) # <<>> THEN <<0, 0, 0, 1>> \o To4(ip)
                   ELSE IF To16(ip) # <<>> THEN <<0, 0, 0, 1>> \o To16(ip)
                        ELSE <<0, 0, 0, 3>> \o ip
           port == Uint16Of(pkg.Addr.Port)
       IN  head \o <<port % 256, port \div 256>> \o pkg.Data

\* MarshalPackage(pkg, proto); <<>> is the nil it returns for a proto other
\* than "udp".
MarshalPackage(pkg, proto) ==
  IF proto # "udp" THEN <<>>
  ELSE LET ip == pkg.Addr.IP
           head == IF To4(ip) # <<>> THEN <<0, 0, 0, 1>> \o To4(ip)
                   ELSE IF To16(ip) # <<>> THEN <<0, 0, 0, 1>> \o To16(ip)
                        ELSE <<0, 0, 0, 3>> \o ip
       IN  head \o PutUint16(Uint16Of(pkg.Addr.Port)) \o pkg.Data

\* The datagrams handed to UnMarshalPackage: every address type over a
\* 4-byte address field, and ones shorter than the fixed header.
Datagrams ==
  { <<0, 0, 0, a>> \o <<1, 2, 3, 4>> \o <<1, 187>> \o d
    : a \in {1, 3, 4}, d \in Payloads }
    \cup { <<>>, <<0, 0, 0, 1>>, <<0, 0, 0, 1, 1, 2, 3, 4, 1>> }

\* UnMarshalPackage(msg), msg having no capacity beyond its length: fixed
\* offsets, the address-type byte is not read; msg[10:] of a shorter msg
\* panics.
UnMarshalPackage(msg) ==
  IF Len(msg) < UdpHeaderLen THEN [panic |-> TRUE]
  ELSE [panic |-> FALSE,
        Addr |-> [IP |-> SubSeq(msg, 5, 8),
                  Port |-> GetUint16(SubSeq(msg, 9, 10))],
        Data |-> SubSeq(msg, 11, Len(msg))]

ParseCall ==
  /\ \E buf \in MsgHdrBufs :
       call' = [fn |-> "ParseRemoteAddrFromMsgHdr", buf |-> buf,
                out |-> ParseRemoteAddrFromMsgHdr(buf)]
  /\ UNCHANGED <<h, upstream, hs, dial, table, cg>>

MarshalCall ==
  /\ \E pkg \in DataPackages, proto \in Protos :
       call' = [fn |-> "MarshalPackage", pkg |-> pkg, proto |-> proto,
                out |-> MarshalPackage(pkg, proto)]
  /\ UNCHANGED <<h, upstream, hs, dial, table, cg>>

\* A datagram from the network is decoded (from: the packet the datagram
\* was encoded from, none here).
UnMarshalCall ==
  /\ \E msg \in Datagrams :
       call' = [fn |-> "UnMarshalPackage", msg |-> msg, from |-> <<>>,
                out |-> UnMarshalPackage(msg)]
  /\ UNCHANGED <<h, upstream, hs, dial, table, cg>>

\* The datagram MarshalPackage just returned is decoded.
RoundTripCall ==
  /\ call.fn = "MarshalPackage"
  /\ call.out # <<>>
  /\ call' = [fn |-> "UnMarshalPackage", msg |-> call.out, from |-> <<call.pkg>>,
              out |-> UnMarshalPackage(call.out)]
  /\ UNCHANGED <<h, upstream, hs, dial, table, cg>>

InitCodec ==
  /\ call = NoCall
  /\ table = NoTable
  /\ cg = NoManager
  /\ h = NoTunnel
  /\ upstream = "live"
  /\ hs = NoSessions
  /\ dial = NoDial

NextCodec == ParseCall \/ MarshalCall \/ UnMarshalCall \/ RoundTripCall

SpecCodec == InitCodec /\ [][NextCodec]_vars

(***************************************************************************)
(* C18: destination recovery returns a whole address or an error           *)
(***************************************************************************)

\* The bytes ParseRemoteAddrFromMsgHdr reads of a matching record.
NeededData(m) == IF IsOrigDst4(m) THEN 8 ELSE 24

MatchingRecords(buf) ==
  IF buf.kind # "oob" THEN {}
  ELSE {buf.msgs[k] : k \in {j \in 1..Len(buf.msgs) :
                               IsOrigDst4(buf.msgs[j]) \/ IsOrigDst6(buf.msgs[j])}}

ShortRecords(buf) == {m \in MatchingRecords(buf) : Len(m.Data) < NeededData(m)}

\* C18: ParseRemoteAddrFromMsgHdr never panics; it returns an error and no
\* address when the buffer is nil, holds no original-destination record or
\* holds one whose data is shorter than the bytes read of it (8 for the
\* IPv4 level, 24 for the IPv6 level); it returns an address only when a
\* complete matching record is present.
C18_RecoveryWholeOrError ==
  call.fn = "ParseRemoteAddrFromMsgHdr" =>
    /\ ~call.out.panic
    /\ (MatchingRecords(call.buf) = {} \/ ShortRecords(call.buf) # {})
         => call.out.err # "" /\ call.out.addr = <<>>
    /\ call.out.addr # <<>>
         => MatchingRecords(call.buf) \ ShortRecords(call.buf) # {}

(***************************************************************************)
(* C19: the decoder rejects what is not an IPv4 datagram                   *)
(***************************************************************************)

\* UnMarshalPackage returned no package, in an orderly way.
DatagramRejected == ~call.out.panic /\ "Addr" \notin DOMAIN call.out

\* C19: UnMarshalPackage rejects every datagram whose address-type byte
\* (offset 3) is not 1 and every datagram shorter than the 10-byte header;
\* for address type 1 it returns bytes 4..7 as the address, bytes 8..9 as
\* the big-endian port and the rest as the payload.
C19_DecoderRejectsNonIPv4 ==
  call.fn = "UnMarshalPackage" =>
    IF Len(call.msg) < UdpHeaderLen \/ call.msg[4] # 1
    THEN DatagramRejected
    ELSE /\ ~call.out.panic
         /\ call.out.Addr.IP = SubSeq(call.msg, 5, 8)
         /\ call.out.Addr.Port = call.msg[9] * 256 + call.msg[10]
         /\ call.out.Data = SubSeq(call.msg, 11, Len(call.msg))

(***************************************************************************)
(* C20: the encoder's format and the IPv4 round trip                       *)
(***************************************************************************)

\* The address-type byte and the address bytes the format prescribes.
DatagramAtyp(ip) == IF RepresentableIn4(ip) \/ Len(ip) = 16 THEN 1 ELSE 3

DatagramAddr(ip) == IF RepresentableIn4(ip) THEN FourByteForm(ip) ELSE ip

\* C20: for "udp" MarshalPackage returns 00 00 00 <atyp> <addr> <port-hi>
\* <port-lo> <payload>, with atyp 1 and the 4-byte form for an address
\* representable in 4 bytes, atyp 1 and the 16 bytes for another 16-byte
\* address, atyp 3 for an address that is neither; for every other proto it
\* returns nothing; and decoding the datagram of an IPv4-addressed packet
\* gives back the packet's address, port and payload.
C20_MarshalFormatAndRoundTrip ==
  /\ call.fn = "MarshalPackage" =>
       IF call.proto = "udp"
       THEN call.out =
              <<0, 0, 0, DatagramAtyp(call.pkg.Addr.IP)>>
                \o DatagramAddr(call.pkg.Addr.IP)
                \o <<call.pkg.Addr.Port \div 256, call.pkg.Addr.Port % 256>>
                \o call.pkg.Data
       ELSE call.out = <<>>
  /\ (/\ call.fn = "UnMarshalPackage"
      /\ call.from # <<>>
      /\ RepresentableIn4(call.from[1].Addr.IP))
       => /\ ~call.out.panic
          /\ SameIP(call.out.Addr.IP, call.from[1].Addr.IP)
          /\ call.out.Addr.Port = call.from[1].Addr.Port
          /\ call.out.Data = call.from[1].Data

\* The datagram of a packet for 1.2.3.4 (held in 16-byte form), port 443,
\* with a payload, was encoded and decoded again.
C20_Witness ==
  /\ call.fn = "UnMarshalPackage"
  /\ call.from # <<>>
  /\ call.from[1].Addr = [IP |-> IPv4(1, 2, 3, 4), Port |-> 443]
  /\ call.from[1].Data = <<7>>
  /\ call.msg = <<0, 0, 0, 1, 1, 2, 3, 4, 1, 187, 7>>

(***************************************************************************)
(* C21: the method is the one the server sent                              *)
(***************************************************************************)

\* C21: the method-selection decision rests on the two bytes received: a
\* method reply delivered with fewer than 2 bytes carries no method byte,
\* and after it Tunnel enters neither the auth stage nor the CONNECT stage
\* (a byte left in the buffer by its own greeting is not taken for the
\* server's method).
C21_MethodFromReplyOnly ==
  \A i \in Positions :
    (IsRead(i, "methodReply") /\ Len(Trace[i].data) < 2)
      => IsLast(i) /\ h.pc = "Failed"

(***************************************************************************)
(* C22: an auth request is written only when method 2 was offered          *)
(***************************************************************************)

\* C22: Tunnel writes an auth request only if its greeting offered method
\* 2, that is only if the user name and the password are both non-empty;
\* when the server selects method 2 and only no-auth was offered the
\* session fails and no auth request is written.
C22_AuthOnlyWhenOffered ==
  /\ \A i \in Positions :
       IsWrite(i, "authRequest") =>
         /\ h.proxy.UserName # <<>> /\ h.proxy.Password # <<>>
         /\ \E j \in 1..(i - 1) :
              IsWrite(j, "greeting") /\ 2 \in OfferedMethods(Trace[j].data)
  /\ \A i \in Positions :
       (/\ IsRead(i, "methodReply")
        /\ Len(Trace[i].data) >= 2
        /\ Trace[i].data[1] = 5 /\ Trace[i].data[2] = 2
        /\ 2 \notin OfferedMethods(Trace[i - 1].data))
         => IsLast(i) /\ h.pc = "Failed"

(***************************************************************************)
(* C23: the length bytes of the auth request                               *)
(***************************************************************************)

\* C23: every auth request Tunnel writes is 01 <ulen> <uname> <plen>
\* <passwd> with ulen the number of user name bytes that follow it and plen
\* the number of password bytes that follow it, for user names and
\* passwords of every length.
C23_AuthRequestLengths ==
  \A i \in Positions :
    IsWrite(i, "authRequest") =>
      LET u == h.proxy.UserName
          p == h.proxy.Password
          m == Trace[i].data
      IN  /\ Len(m) = 3 + Len(u) + Len(p)
          /\ m[1] = 1
          /\ m[2] = Len(u)
          /\ SubSeq(m, 3, 2 + Len(u)) = u
          /\ m[3 + Len(u)] = Len(p)
          /\ SubSeq(m, 4 + Len(u), Len(m)) = p

(***************************************************************************)
(* C24: options, bind and connect of a successful dial                     *)
(***************************************************************************)

\* The positions of the system call named name in the last MegaDial's log.
DialPositions(name) ==
  {k \in 1..Len(dial.last.log) : dial.last.log[k].call = name}

\* Every call named a precedes every call named b, and both were made.
DialBefore(a, b) ==
  /\ DialPositions(a) # {} /\ DialPositions(b) # {}
  /\ \A i \in DialPositions(a), j \in DialPositions(b) : i < j

\* The socket address is the address addr with its own port.
SockAddrIs(sa, addr) == SameIP(sa.Addr, addr.IP) /\ sa.Port = addr.Port

\* C24: on every successful MegaDial the reuse-address and transparency
\* options are set before the bind, the bind precedes the connect, the
\* socket is bound to the caller's local address and port and connected to
\* the caller's remote address and port, port 0 included.
C24_OptionsBindConnect ==
  (MegaDialReturned /\ dial.last.err = "") =>
    /\ DialBefore("setsockopt SO_REUSEADDR", "bind")
    /\ DialBefore("setsockopt IP_TRANSPARENT", "bind")
    /\ DialBefore("bind", "connect")
    /\ \A k \in DialPositions("bind") :
         SockAddrIs(dial.last.log[k].arg, dial.last.lAddr)
    /\ \A k \in DialPositions("connect") :
         SockAddrIs(dial.last.log[k].arg, dial.last.rAddr)

(***************************************************************************)
(* The cgroup manager: CreateCGroup                                        *)
(***************************************************************************)

\* How many times CreateCGroup is called.
MaxCreates == 3

CGroupLevels == {1, 2, 3}
CGroupPaths == {"/a", "/b", "/c"}

\* NewCGroupManager(): no member; no cgroup directory made yet.
NewCGroupManager == NoManager

PathExistsErr == "create group failed, path already exist"
LevelExistsErr == "create group failed, level already exist"
MkdirErr == "errno: mkdir"

\* Mutant: only the path is compared.
AlreadyExistsPathOnly(cgroups, level, elemPath) ==
  IF \E k \in 1..Len(cgroups) : cgroups[k].path = elemPath
  THEN PathExistsErr
  ELSE ""

\* The check CreateCGroup makes on the members, in list order: the error of
\* the first member with the same path or the same priority, "" if none.
RECURSIVE AlreadyExists(_, _, _)
AlreadyExists(cgroups, level, elemPath) ==
  IF cgroups = <<>> THEN ""
  ELSE IF Head(cgroups).path = elemPath THEN PathExistsErr
  ELSE IF Head(cgroups).priority = level THEN LevelExistsErr
  ELSE AlreadyExists(Tail(cgroups), level, elemPath)

\* The less function handed to sort.SliceStable: not (a.priority >
\* b.priority).
CGroupLess(a, b) == ~(a.priority > b.priority)

\* The member at position j moved down while less(j, j - 1), as the
\* insertion sort of sort.SliceStable does for a short slice.
RECURSIVE SinkDown(_, _)
SinkDown(s, j) ==
  IF j > 1 /\ CGroupLess(s[j], s[j - 1])
  THEN SinkDown([s EXCEPT ![j] = s[j - 1], ![j - 1] = s[j]], j - 1)
  ELSE s

RECURSIVE SliceStableFrom(_, _)
SliceStableFrom(s, i) ==
  IF i > Len(s) THEN s ELSE SliceStableFrom(SinkDown(s, i), i + 1)

SliceStable(s) == SliceStableFrom(s, 2)

\* com.GuaranteeDir(path): the directory is made when it does not exist,
\* and making it can fail.
GuaranteeDir(dirs, path, mkdirOk) ==
  IF path \in dirs THEN [err |-> "", dirs |-> dirs]
  ELSE IF mkdirOk THEN [err |-> "", dirs |-> dirs \cup {path}]
       ELSE [err |-> MkdirErr, dirs |-> dirs]

\* CreateCGroup(level, elemPath) under the manager's lock: the member is
\* appended and the list sorted before the directory is made; a failure to
\* make it returns the error and leaves the list as it is by then.
CreateCGroup(m, level, elemPath, mkdirOk) ==
  LET exists == AlreadyExists(m.CGroups, level, elemPath)
      member == [path |-> elemPath, priority |-> level]
      sorted == SliceStable(Append(m.CGroups, member))
      dir == GuaranteeDir(m.dirs, elemPath, mkdirOk)
      last == [fn |-> "CreateCGroup", level |-> level, path |-> elemPath,
               before |-> m.CGroups]
  IN  IF exists # ""
      THEN [m EXCEPT !.calls = @ + 1,
                     !.last = last @@ [err |-> exists, member |-> <<>>]]
      ELSE IF dir.err # ""
      THEN [CGroups |-> sorted, dirs |-> dir.dirs, calls |-> m.calls + 1,
            last |-> last @@ [err |-> dir.err, member |-> <<>>]]
      ELSE [CGroups |-> sorted, dirs |-> dir.dirs, calls |-> m.calls + 1,
            last |-> last @@ [err |-> "", member |-> <<member>>]]

\* One call of CreateCGroup, by any goroutine: the lock makes the calls
\* take effect one after the other.
CreateCGroupCall ==
  /\ cg.calls < MaxCreates
  /\ \E level \in CGroupLevels, elemPath \in CGroupPaths,
        mkdirOk \in BOOLEAN :
       cg' = CreateCGroup(cg, level, elemPath, mkdirOk)
  /\ UNCHANGED <<h, upstream, hs, dial, call, table>>

InitCGroup ==
  /\ cg = NewCGroupManager
  /\ h = NoTunnel
  /\ upstream = "live"
  /\ hs = NoSessions
  /\ dial = NoDial
  /\ call = NoCall
  /\ table = NoTable

NextCGroup == CreateCGroupCall

SpecCGroup == InitCGroup /\ [][NextCGroup]_vars

CreateCGroupReturned == cg.last.fn = "CreateCGroup"

(***************************************************************************)
(* C27: the members are sorted and unique                                  *)
(***************************************************************************)

\* C27: after any CreateCGroup calls the CGroups list is strictly
\* increasing in priority and no two members share a path; a call whose
\* path or level is that of a member returns an error and adds nothing.
C27_MembersSortedUnique ==
  /\ \A i, j \in 1..Len(cg.CGroups) :
       i < j => /\ cg.CGroups[i].priority < cg.CGroups[j].priority
                /\ cg.CGroups[i].path # cg.CGroups[j].path
  /\ CreateCGroupReturned =>
       ((\E k \in 1..Len(cg.last.before) :
           \/ cg.last.before[k].path = cg.last.path
           \/ cg.last.before[k].priority = cg.last.level)
        => cg.last.err # "" /\ cg.CGroups = cg.last.before)

\* Three members exist and the last call made the one of the lowest
\* priority, which the sort moved to the front.
C27_Witness ==
  /\ Len(cg.CGroups) = 3
  /\ CreateCGroupReturned /\ cg.last.err = ""
  /\ cg.last.level = 1 /\ cg.CGroups[1].path = cg.last.path

(***************************************************************************)
(* C28: a failed CreateCGroup leaves the manager unchanged                 *)
(***************************************************************************)

\* C28: after a CreateCGroup that returned an error the CGroups list holds
\* exactly the members it held before the call.
C28_FailedCreateChangesNothing ==
  (CreateCGroupReturned /\ cg.last.err # "") => cg.CGroups = cg.last.before

(***************************************************************************)
(* The firewall table: TableRule and the kernel table it drives            *)
(***************************************************************************)

\* How many calls are made on the table.
MaxTableCalls == 3

\* The chains registered before any call (defaultChains), the names a
\* caller gives new chains, and the targets that are no chains.
DefaultChains == {"OUTPUT"}
NewChains == {"A", "B"}
ChainNames == DefaultChains \cup NewChains
Actions == {"ACCEPT", "MARK"}

\* The match a caller may give a jump rule: none, or one base rule.
Bases == {<<>>, <<"-p tcp">>}

\* A finite map with one key set, with one key removed.
Put(f, k, v) == [n \in DOMAIN f \cup {k} |-> IF n = k THEN v ELSE f[n]]
Drop(f, k) == [n \in DOMAIN f \ {k} |-> f[n]]

\* s with e inserted so that it is at 0-based position i; s without its
\* first element equal to e.
InsertAt(s, i, e) == SubSeq(s, 1, i) \o <<e>> \o SubSeq(s, i + 1, Len(s))
RemoveFirst(s, e) ==
  LET at == {k \in 1..Len(s) : s[k] = e} IN
  IF at = {} THEN s
  ELSE LET k == CHOOSE x \in at : \A y \in at : x <= y
       IN  SubSeq(s, 1, k - 1) \o SubSeq(s, k + 1, Len(s))

containRule(action, base) == [action |-> action, bsRules |-> base]

ChainRuleOf(parent) == [parent |-> parent, sonSl |-> <<>>, containSl |-> <<>>]

\* A RuleCommand: operation, chain, 1-based index, rule.
RuleCommand(operation, chain, index, contain) ==
  [operation |-> operation, chain |-> chain, index |-> index,
   contain |-> contain]

NoRule == containRule("", <<>>)

\* The chains a packet can come to from the chains of set from, within
\* depth jumps.
RECURSIVE JumpsFrom(_, _, _)
JumpsFrom(k, from, depth) ==
  LET next == from \cup
        UNION {{k[n][i].action : i \in 1..Len(k[n])} :
                 n \in from \cap DOMAIN k} IN
  IF depth = 0 \/ next = from THEN from ELSE JumpsFrom(k, next, depth - 1)

\* iptables on the kernel table k (chain name -> rules): the table after
\* the command, ok telling whether the command succeeded.  -N fails on an
\* existing chain; -I on a missing chain, a position beyond the end and a
\* jump to a missing chain or into a loop; -F on a missing chain; -D when
\* no rule of the chain equals the one given; -X on a missing, non-empty
\* or referenced chain.
Iptables(k, cmd) ==
  LET c == cmd.chain
      known == c \in DOMAIN k
      fail == [ok |-> FALSE, k |-> k]
      loops == c \in JumpsFrom(k, {cmd.contain.action}, Cardinality(DOMAIN k))
      referenced ==
        \E n \in DOMAIN k : \E i \in 1..Len(k[n]) : k[n][i].action = c
  IN
  CASE cmd.operation = "N" ->
         IF known THEN fail ELSE [ok |-> TRUE, k |-> Put(k, c, <<>>)]
    [] cmd.operation = "I" ->
         IF \/ ~known
            \/ cmd.index < 1
            \/ cmd.index > Len(k[c]) + 1
            \/ cmd.contain.action \notin Actions \cup DOMAIN k
            \/ loops
         THEN fail
         ELSE [ok |-> TRUE,
               k |-> Put(k, c, InsertAt(k[c], cmd.index - 1, cmd.contain))]
    [] cmd.operation = "F" ->
         IF ~known THEN fail ELSE [ok |-> TRUE, k |-> Put(k, c, <<>>)]
    [] cmd.operation = "D" ->
         IF ~known \/ \A i \in 1..Len(k[c]) : k[c][i] # cmd.contain
         THEN fail
         ELSE [ok |-> TRUE, k |-> Put(k, c, RemoveFirst(k[c], cmd.contain))]
    [] cmd.operation = "X" ->
         IF ~known \/ k[c] # <<>> \/ referenced \/ c \in DefaultChains
         THEN fail
         ELSE [ok |-> TRUE, k |-> Drop(k, c)]

\* The state a call works on: the registered chains, the kernel table,
\* the commands run so far in the call, the error returned.
\* rCmd.CombinedOutput(): the command is run; the one numbered failing
\* fails for a reason of its own (lock, permission), changing nothing.
CombinedOutput(x, cmd, failing) ==
  LET r == IF Len(x.cmds) + 1 = failing THEN [ok |-> FALSE, k |-> x.kernel]
           ELSE Iptables(x.kernel, cmd)
  IN  [x EXCEPT !.kernel = r.k,
                !.cmds = Append(@, cmd @@ [ok |-> r.ok])]

CommandFailed(x) == ~x.cmds[Len(x.cmds)].ok

Return(x, err) == [x EXCEPT !.err = err]

CommandErr == "errno: iptables"

\* ChainRule.valid(index, contain): the index is not beyond the recorded
\* rules and no recorded rule equals contain.
valid(c, index, contain) ==
  /\ ~(index > Len(c.containSl))
  /\ \A i \in 1..Len(c.containSl) : c.containSl[i] # contain

\* com.MegaInsert(slice, elem, index): the slice with elem inserted at
\* index and update TRUE, or the slice as it is and update FALSE when it
\* holds elem already.
MegaInsert(slice, elem, index) ==
  IF \E i \in 1..Len(slice) : slice[i] = elem
  THEN [slice |-> slice, update |-> FALSE]
  ELSE [slice |-> InsertAt(slice, index, elem), update |-> TRUE]

\* com.MegaDel(slice, elem): the slice without elem.
MegaDel(slice, elem) ==
  [slice |-> RemoveFirst(slice, elem),
   update |-> \E i \in 1..Len(slice) : slice[i] = elem]

\* ChainRule.insert(index, action, base, extends) on chain c.
insert(c, index, contain) ==
  LET r == MegaInsert(c.containSl, contain, index) IN
  IF r.update THEN [c EXCEPT !.containSl = r.slice] ELSE c

\* ChainRule.clear(): the recorded rules of the chain and of its sons,
\* their sons and so on are dropped.  (Chains are told apart by name; the
\* calls made here register no name a second time under an older son
\* list.)
RECURSIVE clear(_, _)
clear(chains, name) ==
  LET RECURSIVE sons(_, _)
      sons(cs, k) ==
        IF k > Len(chains[name].sonSl) THEN cs
        ELSE IF chains[name].sonSl[k] \in DOMAIN cs
             THEN sons(clear(cs, chains[name].sonSl[k]), k + 1)
             ELSE sons(cs, k + 1)
      cleared == sons(chains, 1)
  IN  [cleared EXCEPT ![name].containSl = <<>>]

\* TableRule.InsertRule(chain, index, action, base, extends)
InsertRule(x, chain, index, action, base, failing) ==
  IF chain \notin DOMAIN x.chains THEN Return(x, "chain not exist")
  ELSE
  LET rule == x.chains[chain]
      contain == containRule(action, base)
      ran == CombinedOutput(x, RuleCommand("I", chain, index + 1, contain),
                            failing)
  IN  IF ~valid(rule, index, contain) THEN Return(x, "")
      ELSE IF CommandFailed(ran) THEN Return(ran, CommandErr)
      ELSE Return([ran EXCEPT !.chains[chain] = insert(rule, index, contain)],
                  "")

\* TableRule.AddRule(chain, action, base, extends)
AddRule(x, chain, action, base, failing) ==
  InsertRule(x, chain, 0, action, base, failing)

\* TableRule.CreateChain(parent, index, chain, base, extends)
CreateChain(x, parent, index, chain, base, failing) ==
  IF parent \notin DOMAIN x.chains THEN Return(x, "parent not exist")
  ELSE
  LET parentRule == x.chains[parent]
      ran == CombinedOutput(x, RuleCommand("N", chain, 0, NoRule), failing)
      inserted == InsertRule(ran, parent, index, chain, base, failing)
      attached ==
        [inserted EXCEPT !.chains[parent].sonSl = Append(@, chain)]
  IN  IF ~valid(parentRule, index, containRule(chain, <<>>))
      THEN Return(x, "create chain invalid")
      ELSE IF CommandFailed(ran) THEN Return(ran, CommandErr)
      ELSE IF inserted.err # "" THEN inserted
      ELSE Return([attached EXCEPT
                     !.chains = Put(@, chain, ChainRuleOf(parent))], "")

\* TableRule.AppendChain(parent, chain, base, extends)
AppendChain(x, parent, chain, base, failing) ==
  IF parent \notin DOMAIN x.chains THEN Return(x, "parent not exist")
  ELSE LET len == Len(x.chains[parent].containSl)
           index == IF len > 0 THEN len - 1 ELSE len
       IN  CreateChain(x, parent, index, chain, base, failing)

\* TableRule.AddChain(parent, chain, base, extends)
AddChain(x, parent, chain, base, failing) ==
  CreateChain(x, parent, 0, chain, base, failing)

\* ChainRule.detach(): the chain leaves its parent's sons.
detach(chains, name) ==
  LET parent == chains[name].parent IN
  IF parent = "" \/ parent \notin DOMAIN chains THEN chains
  ELSE [chains EXCEPT ![parent].sonSl = MegaDel(@, name).slice]

\* TableRule.DelChain(chain): flush, clear the record, delete the jump
\* rule from the parent and detach, remove the chain.  The entry of
\* t.chains and the jump rule recorded in the parent are left as they are.
DelChain(x, chain, failing) ==
  IF chain \in DefaultChains THEN Return(x, "delete default chain")
  ELSE IF chain \notin DOMAIN x.chains
  THEN Return(x, "delete chain not exist")
  ELSE
  LET cnRule == x.chains[chain]
      flushed == CombinedOutput(x, RuleCommand("F", chain, 0, NoRule),
                                failing)
      cleared == [flushed EXCEPT !.chains = clear(@, chain)]
      deleted == CombinedOutput(cleared,
                   RuleCommand("D", cnRule.parent, 0,
                               containRule(chain, <<>>)), failing)
      detached == IF cnRule.parent = "" THEN cleared
                  ELSE [deleted EXCEPT !.chains = detach(@, chain)]
      removed == CombinedOutput(detached, RuleCommand("X", chain, 0, NoRule),
                                failing)
  IN  IF CommandFailed(flushed) THEN Return(flushed, CommandErr)
      ELSE IF cnRule.parent # "" /\ CommandFailed(deleted)
      THEN Return(deleted, CommandErr)
      ELSE IF CommandFailed(removed) THEN Return(removed, CommandErr)
      ELSE Return(removed, "")

\* The table before any call: the default chains are registered, with no
\* rule recorded, and exist in the kernel, empty.
NewTableRule ==
  [chains |-> [n \in DefaultChains |-> ChainRuleOf("")],
   kernel |-> [n \in DefaultChains |-> <<>>],
   calls |-> 0,
   last |-> [fn |-> "none"]]

\* The commands that can fail for a reason of their own: the first, the
\* second or the third of a call, or none (0).
Failings == 0..3

Entering ==
  [chains |-> table.chains, kernel |-> table.kernel, cmds |-> <<>>,
   err |-> ""]

\* The table after a call that ended in r.
Leaving(fn, chain, parent, index, r) ==
  [chains |-> r.chains, kernel |-> r.kernel, calls |-> table.calls + 1,
   last |-> [fn |-> fn, chain |-> chain, parent |-> parent, index |-> index,
             err |-> r.err, cmds |-> r.cmds, before |-> table.chains,
             kernelBefore |-> table.kernel]]

InsertRuleCall ==
  /\ table.calls < MaxTableCalls
  /\ \E chain \in ChainNames, index \in 0..2, action \in Actions,
        failing \in Failings :
       table' = Leaving("InsertRule", chain, "", index,
                  InsertRule(Entering, chain, index, action, <<>>, failing))
  /\ UNCHANGED <<h, upstream, hs, dial, call, cg>>

AddRuleCall ==
  /\ table.calls < MaxTableCalls
  /\ \E chain \in ChainNames, action \in Actions, failing \in Failings :
       table' = Leaving("AddRule", chain, "", 0,
                  AddRule(Entering, chain, action, <<>>, failing))
  /\ UNCHANGED <<h, upstream, hs, dial, call, cg>>

CreateChainCall ==
  /\ table.calls < MaxTableCalls
  /\ \E parent \in ChainNames, index \in 0..1, chain \in NewChains,
        base \in Bases, failing \in Failings :
       table' = Leaving("CreateChain", chain, parent, index,
                  CreateChain(Entering, parent, index, chain, base, failing))
  /\ UNCHANGED <<h, upstream, hs, dial, call, cg>>

AddChainCall ==
  /\ table.calls < MaxTableCalls
  /\ \E parent \in ChainNames, chain \in NewChains, base \in Bases,
        failing \in Failings :
       table' = Leaving("AddChain", chain, parent, 0,
                  AddChain(Entering, parent, chain, base, failing))
  /\ UNCHANGED <<h, upstream, hs, dial, call, cg>>

AppendChainCall ==
  /\ table.calls < MaxTableCalls
  /\ \E parent \in ChainNames, chain \in NewChains, base \in Bases,
        failing \in Failings :
       table' = Leaving("AppendChain", chain, parent, 0,
                  AppendChain(Entering, parent, chain, base, failing))
  /\ UNCHANGED <<h, upstream, hs, dial, call, cg>>

DelChainCall ==
  /\ table.calls < MaxTableCalls
  /\ \E chain \in ChainNames, failing \in Failings :
       table' = Leaving("DelChain", chain, "", 0,
                  DelChain(Entering, chain, failing))
  /\ UNCHANGED <<h, upstream, hs, dial, call, cg>>

InitTable ==
  /\ table = NewTableRule
  /\ h = NoTunnel
  /\ upstream = "live"
  /\ hs = NoSessions
  /\ dial = NoDial
  /\ call = NoCall
  /\ cg = NoManager

NextTable ==
  \/ InsertRuleCall
  \/ AddRuleCall
  \/ CreateChainCall
  \/ AddChainCall
  \/ AppendChainCall
  \/ DelChainCall

SpecTable == InitTable /\ [][NextTable]_vars

\* The call just made returned nil.
TableCallSucceeded(fn) ==
  /\ table.last.fn = fn
  /\ table.last.err = ""

\* The jump rule to the chain of the last call is at the 0-based position
\* pos of the parent's recorded rules, and the insert command was given
\* the 1-based position pos + 1.
JumpRuleAt(pos) ==
  LET now == table.chains[table.last.parent].containSl
      cmds == table.last.cmds
  IN  /\ Len(now) > pos
      /\ now[pos + 1].action = table.last.chain
      /\ \E k \in 1..Len(cmds) :
           /\ cmds[k].operation = "I"
           /\ cmds[k].contain.action = table.last.chain
           /\ cmds[k].index = pos + 1

\* C25: after a successful AppendChain on a parent that recorded n rules,
\* the jump rule to the new chain is at position n, after every rule that
\* was there, in the parent's recorded rules and in the insert command;
\* after a successful AddChain it is at position 0.
C25_AppendChainAtLastPosition ==
  /\ TableCallSucceeded("AppendChain") =>
       JumpRuleAt(Len(table.last.before[table.last.parent].containSl))
  /\ TableCallSucceeded("AddChain") => JumpRuleAt(0)

\* C26: the registered chains are the chains of the kernel table, and
\* the rules recorded for each chain are, in order, the rules the kernel
\* holds in it.
C26_TableRecordsKernel ==
  /\ DOMAIN table.chains = DOMAIN table.kernel
  /\ \A c \in DOMAIN table.chains \cap DOMAIN table.kernel :
       table.chains[c].containSl = table.kernel[c]

====
